---- MODULE Spec2Model ----
(***************************************************************************)
(* A model of the l5x_st_compiler package: the ladder-logic (LD) to ST     *)
(* translator, the function-block-diagram (FBD) to ST translator, the IR   *)
(* extractor / serializer with the fidelity scorer, and the identifier     *)
(* policy.                                                                 *)
(*                                                                         *)
(* Text is modelled as Python handles it.  An input text is a sequence of  *)
(* tokens: every punctuation character the code looks at is a token of its *)
(* own, and a name is one token.  Emitted text is a sequence of string     *)
(* pieces, one per `s += ...` operand of the code.                         *)
(***************************************************************************)
EXTENDS Integers, Sequences, FiniteSets, TLC

VARIABLES
    \* ---- ladder_logic.py: one call of translate_ladder_to_st
    rung,            \* the rung text handed to translate_ladder_to_st
    formatted,       \* format_rung_text(rung)
    instr_list,      \* process_rung_instructions(formatted)
    st,              \* the returned ST text, as pieces
    ld_pc,           \* "start" | "done"
    \* ---- fbd_translator.py: one FBDTranslator during parse_fbd_content
    sheets,          \* the Sheet elements of the routine parsed so far
    input_refs,      \* self.input_refs: ID -> Operand
    output_refs,     \* self.output_refs: ID -> Operand
    function_blocks, \* self.function_blocks: [ids: keys in insertion order, info: ID -> info]
    wires,           \* self.wires
    execution_order, \* self.execution_order
    st_code,         \* st_code of parse_fbd_content: per sheet its header and code lines
    fbd_pc,          \* "parsing" | "returned"
    \* ---- ir_converter.py: one IRConverter
    document,        \* the element tree of the L5X the project accessor wraps
    original,        \* the IRProject extracted first
    l5x_xml,         \* the element tree that the string returned by ir_to_l5x denotes
    converted,       \* the IRProject compared with original
    score,           \* calculate_fidelity_score: matched / total as [num, den]
    ir_pc,           \* "extract" | "serialize" | "reextract" | "score" | "done"
    conversion_metadata, \* self.conversion_metadata: original_components, warnings, errors
    \* ---- utils.py: sanitize_identifier
    identifier,      \* the string first passed, as a sequence of characters
    results,         \* what each successive call returned
    \* ---- st2l5x.py: one ST2L5XConverter during parse_st_code
    st_source,       \* the st_code argument: its lines, each a run of tokens
    variables,       \* self.variables: [ids: names in insertion order, info: name -> info]
    user_types,      \* self.user_types
    program_logic,   \* self.program_logic: the kept lines
    l5x_root,        \* the element returned by parse_st_code
    lift_pc,         \* "start" | "done"
    \* ---- cli.py: one call of validate_ir
    validated_project, \* the IRProject handed to validate_ir
    validation,      \* what the call did: [raised, errors]
    val_pc,          \* "start" | "done"
    \* ---- cli.py: one run of a command
    argv,            \* the command line: [entry, use_ir]
    input_file,      \* the content of the file named by -i
    output_file,     \* the file named by -o: Absent, or what was written to it
    exit_code,       \* the exit status of the process
    echoed,          \* the lines printed, in order
    cli_pc,          \* "start" | "exited"
    \* ---- models.py, l5x2st.py: one L5X2STConverter
    state,           \* self.state: the CompilerState
    add_calls,       \* every add_variable call made so far: [var_name, data_type, origin]
    parsed_files,    \* what each parse_l5x_file so far returned: [st_file, path, controller]
    consolidated,    \* the STFile the last conversion returned
    called           \* the last call made on the converter: [op, files named, n-th call]

ldVars == <<rung, formatted, instr_list, st, ld_pc>>
fbdVars == <<sheets, input_refs, output_refs, function_blocks, wires,
             execution_order, st_code, fbd_pc>>
irVars == <<document, original, l5x_xml, converted, score, ir_pc, conversion_metadata>>
sanVars == <<identifier, results>>
liftVars == <<st_source, variables, user_types, program_logic, l5x_root, lift_pc>>
valVars == <<validated_project, validation, val_pc>>
cliVars == <<argv, input_file, output_file, exit_code, echoed, cli_pc>>
convVars == <<state, add_calls, parsed_files, consolidated, called>>
vars == <<ldVars, fbdVars, irVars, sanVars, liftVars, valVars, cliVars, convVars>>

(***************************************************************************)
(* Python string primitives over token sequences (indices are 0-based, as  *)
(* in the source).                                                         *)
(***************************************************************************)
RECURSIVE FindFrom(_, _, _)
FindFrom(s, c, i) ==
    IF i >= Len(s) THEN -1
    ELSE IF s[i + 1] = c THEN i ELSE FindFrom(s, c, i + 1)

Find(s, c) == FindFrom(s, c, 0)

Slice(s, i, j) == SubSeq(s, i + 1, j)

SliceFrom(s, i) == SubSeq(s, i + 1, Len(s))

ReplaceTok(s, a, b) == [k \in 1..Len(s) |-> IF s[k] = a THEN b ELSE s[k]]

RemoveTok(s, a) == SelectSeq(s, LAMBDA t : t # a)

RECURSIVE Concat(_)
Concat(s) == IF s = <<>> THEN "" ELSE Head(s) \o Concat(Tail(s))

RECURSIVE SplitTok(_, _)
SplitTok(s, sep) ==
    LET k == Find(s, sep)
    IN  IF k = -1 THEN <<s>>
        ELSE <<Slice(s, 0, k)>> \o SplitTok(SliceFrom(s, k + 1), sep)

RECURSIVE JoinStr(_, _)
JoinStr(ss, sep) ==
    IF ss = <<>> THEN ""
    ELSE IF Len(ss) = 1 THEN ss[1]
    ELSE ss[1] \o sep \o JoinStr(Tail(ss), sep)

NonEmpty(ss) == SelectSeq(ss, LAMBDA x : x # <<>>)

(***************************************************************************)
(* ladder_logic.py                                                         *)
(***************************************************************************)
CONDITIONAL_FUNCTIONS == {"EQU", "NEQ", "XIC", "XIO", "GRT", "GEQ", "LES", "LEQ"}

REGULAR_FUNCTIONS ==
    {"COP", "CLR", "GSV", "JSR", "MOV", "MSG", "MUL", "NOP", "OTE", "OTL",
     "OTU", "SSV", "TON", "TOF", "TONR", "RES", "CTU", "CTD", "CTUD", "ADD",
     "SUB", "DIV", "MOD", "SQR", "ABS", "OSR", "OSF", "RTRIG", "FTRIG",
     "BTD", "DTB", "FRD", "TOD"}

\* LLFunc.__init__: params.split(","), stripped, empty ones dropped.
LLFunc(fname, paramToks) ==
    [fname |-> fname,
     params |-> LET parts == SplitTok(RemoveTok(paramToks, " "), ",")
                    strs == [k \in 1..Len(parts) |-> Concat(parts[k])]
                IN  SelectSeq(strs, LAMBDA x : x # ""),
     conditional |-> fname \in CONDITIONAL_FUNCTIONS]

\* xic / xio : one comparison per parameter, ANDed, wrapped in parentheses.
BitTest(params, v) ==
    IF params = <<>> THEN "(FALSE)"
    ELSE "(" \o JoinStr([k \in 1..Len(params) |-> "(" \o params[k] \o " = " \o v \o ")"],
                        " AND ") \o ")"

\* equ, neq, grt, geq, les, leq
Compare(params, op) ==
    IF Len(params) # 2 THEN "(FALSE)"
    ELSE "(" \o params[1] \o " " \o op \o " " \o params[2] \o ")"

CONDITIONAL_FUNCTIONS_IMPL(fname, params) ==
    CASE fname = "XIC" -> BitTest(params, "1")
      [] fname = "XIO" -> BitTest(params, "0")
      [] fname = "EQU" -> Compare(params, "=")
      [] fname = "NEQ" -> Compare(params, "<>")
      [] fname = "GRT" -> Compare(params, ">")
      [] fname = "GEQ" -> Compare(params, ">=")
      [] fname = "LES" -> Compare(params, "<")
      [] fname = "LEQ" -> Compare(params, "<=")

ArityError(fname, count) ==
    "// ERROR: " \o fname \o " requires exactly " \o count

ote(params, condition) ==
    IF Len(params) # 1 THEN ArityError("OTE", "1 parameter")
    ELSE params[1] \o " := " \o (IF condition THEN "1" ELSE "0") \o ";"

ton(params, enable) ==
    IF Len(params) # 2 THEN ArityError("TON", "2 parameters")
    ELSE params[1] \o ".PRE := " \o params[2] \o ";\n"
         \o params[1] \o ".TimerEnable := " \o (IF enable THEN "TRUE" ELSE "FALSE")
         \o ";\nTONR(" \o params[1] \o ");"

\* tof, tonr (called without the enable argument, so enable = True)
Timer(fname, call, params) ==
    IF Len(params) # 2 THEN ArityError(fname, "2 parameters")
    ELSE params[1] \o ".PRE := " \o params[2] \o ";\n"
         \o params[1] \o ".TimerEnable := TRUE;\n" \o call \o "(" \o params[1] \o ");"

\* ctu, ctd (enable = True)
Counter(fname, pin, params) ==
    IF Len(params) # 3 THEN ArityError(fname, "3 parameters")
    ELSE params[1] \o ".PRE := " \o params[2] \o ";\n"
         \o params[1] \o "." \o pin \o " := TRUE;\n"
         \o params[1] \o ".RES := " \o params[3] \o ";\n"
         \o fname \o "(" \o params[1] \o ");"

ctud(params) ==
    IF Len(params) # 4 THEN ArityError("CTUD", "4 parameters")
    ELSE params[1] \o ".PRE := " \o params[2] \o ";\n"
         \o params[1] \o ".CU := " \o params[3] \o ";\n"
         \o params[1] \o ".CD := " \o params[4] \o ";\nCTUD(" \o params[1] \o ");"

\* otl, otu, clr
SetBit(fname, params, v) ==
    IF Len(params) # 1 THEN ArityError(fname, "1 parameter")
    ELSE params[1] \o " := " \o v \o ";"

\* add, sub, mul, div, mod
Arith(fname, params, op) ==
    IF Len(params) # 3 THEN ArityError(fname, "3 parameters")
    ELSE params[3] \o " := " \o params[1] \o " " \o op \o " " \o params[2] \o ";"

\* sqr, abs, btd, dtb, frd, tod
Unary(fname, params, fn) ==
    IF Len(params) # 2 THEN ArityError(fname, "2 parameters")
    ELSE params[2] \o " := " \o fn \o "(" \o params[1] \o ");"

\* osr, osf
OneShot(fname, params) ==
    IF Len(params) # 2 THEN ArityError(fname, "2 parameters")
    ELSE fname \o "(" \o params[1] \o ", " \o params[2] \o ");"

\* rtrig, ftrig
Trigger(fname, params) ==
    IF Len(params) # 1 THEN ArityError(fname, "1 parameter")
    ELSE fname \o "(" \o params[1] \o ");"

gsv(params) ==
    IF Len(params) # 4 THEN ArityError("GSV", "4 parameters")
    ELSE LET names == <<"ClassName", "InstanceName", "AttributeName", "Dest">>
             parts == [k \in 1..4 |-> IF params[k] # "?"
                                      THEN names[k] \o " := " \o params[k] ELSE ""]
         IN  "GSV(" \o JoinStr(SelectSeq(parts, LAMBDA x : x # ""), ", ") \o ");"

ssv(params) ==
    IF Len(params) # 4 THEN ArityError("SSV", "4 parameters")
    ELSE "SSV(" \o JoinStr(params, ", ") \o ");"

jsr(params) ==
    IF Len(params) # 1 THEN ArityError("JSR", "1 parameter")
    ELSE "// JSR to " \o params[1] \o " routine\n// TODO: Process "
         \o params[1] \o " routine content"

mov(params) ==
    IF Len(params) # 2 THEN ArityError("MOV", "2 parameters")
    ELSE params[2] \o " := " \o params[1] \o ";"

cop(params) ==
    IF Len(params) # 3 THEN ArityError("COP", "3 parameters")
    ELSE "COP(" \o JoinStr(params, ", ") \o ");"

msg(params) ==
    IF Len(params) # 1 THEN ArityError("MSG", "1 parameter")
    ELSE "// MSG(" \o params[1] \o ") - commented out"

res(params) ==
    IF Len(params) # 1 THEN ArityError("RES", "1 parameter")
    ELSE params[1] \o ".Reset := 1;"

\* REGULAR_FUNCTIONS_IMPL[fname](params[, flag]); the flag reaches OTE and TON.
REGULAR_FUNCTIONS_IMPL(fname, params, flag) ==
    CASE fname = "OTE" -> ote(params, flag)
      [] fname = "TON" -> ton(params, flag)
      [] fname = "TOF" -> Timer("TOF", "TOFR", params)
      [] fname = "TONR" -> Timer("TONR", "TONR", params)
      [] fname = "CTU" -> Counter("CTU", "CU", params)
      [] fname = "CTD" -> Counter("CTD", "CD", params)
      [] fname = "CTUD" -> ctud(params)
      [] fname = "OTL" -> SetBit("OTL", params, "1")
      [] fname = "OTU" -> SetBit("OTU", params, "0")
      [] fname = "CLR" -> SetBit("CLR", params, "0")
      [] fname = "NOP" -> "// NOP instruction"
      [] fname = "GSV" -> gsv(params)
      [] fname = "SSV" -> ssv(params)
      [] fname = "JSR" -> jsr(params)
      [] fname = "MOV" -> mov(params)
      [] fname = "COP" -> cop(params)
      [] fname = "MSG" -> msg(params)
      [] fname = "RES" -> res(params)
      [] fname = "MUL" -> Arith("MUL", params, "*")
      [] fname = "ADD" -> Arith("ADD", params, "+")
      [] fname = "SUB" -> Arith("SUB", params, "-")
      [] fname = "DIV" -> Arith("DIV", params, "/")
      [] fname = "MOD" -> Arith("MOD", params, "MOD")
      [] fname = "SQR" -> Unary("SQR", params, "SQRT")
      [] fname = "ABS" -> Unary("ABS", params, "ABS")
      [] fname = "BTD" -> Unary("BTD", params, "BCD_TO_INT")
      [] fname = "DTB" -> Unary("DTB", params, "INT_TO_BCD")
      [] fname = "FRD" -> Unary("FRD", params, "REAL_TO_INT")
      [] fname = "TOD" -> Unary("TOD", params, "INT_TO_REAL")
      [] fname = "OSR" -> OneShot("OSR", params)
      [] fname = "OSF" -> OneShot("OSF", params)
      [] fname = "RTRIG" -> Trigger("RTRIG", params)
      [] fname = "FTRIG" -> Trigger("FTRIG", params)

ReplaceBetweenCalls(s) ==
    ReplaceTok(ReplaceTok(ReplaceTok(s, ",", ";"), "[", "<"), "]", ">")

\* The while loop of format_rung_text.  Every "(" of a generated rung has its
\* ")" (RungTexts), so start is never offset - 1.
RECURSIVE FormatLoop(_, _, _)
FormatLoop(text, start, offset) ==
    IF offset = -1 THEN [text |-> text, start |-> start]
    ELSE LET t2 == Slice(text, 0, start)
                   \o ReplaceBetweenCalls(Slice(text, start, offset))
                   \o SliceFrom(text, offset)
             close == Find(SliceFrom(t2, offset), ")")
             start2 == close + offset
             off2 == Find(SliceFrom(t2, start2), "(")
         IN  IF close = -1 THEN [text |-> t2, start |-> start2]
             ELSE FormatLoop(t2, start2, IF off2 = -1 THEN -1 ELSE off2 + start2)

format_rung_text(text) ==
    LET stripped == RemoveTok(text, " ")
        r == FormatLoop(stripped, 0, Find(stripped, "("))
    IN  IF r.start # -1
        THEN Slice(r.text, 0, r.start) \o ReplaceTok(SliceFrom(r.text, r.start), "]", ">")
        ELSE r.text

\* str.split() of the sequence with "(" and ")" turned into blanks: the runs
\* of tokens between blanks.
Tokenized(sequence) ==
    NonEmpty(SplitTok(ReplaceTok(ReplaceTok(RemoveTok(sequence, " "), "(", " "), ")", " "), " "))

process_sequential_function_calls(sequence) ==
    LET tokenized == Tokenized(sequence)
        name(run) == Concat(RemoveTok(RemoveTok(run, ","), " "))
    IN  IF Len(tokenized) = 1 THEN <<LLFunc(name(tokenized[1]), <<>>)>>
        ELSE [k \in 1..(Len(tokenized) \div 2) |->
                 LLFunc(name(tokenized[2 * k - 1]), tokenized[2 * k])]

process_rung_instructions(text) ==
    LET tokenized == SplitTok(ReplaceTok(ReplaceTok(RemoveTok(text, " "), "<", " "), ">", " "), " ")
        disj(block) ==
            LET seqs == SplitTok(block, ";")
            IN  NonEmpty([k \in 1..Len(seqs) |-> process_sequential_function_calls(seqs[k])])
    IN  NonEmpty([b \in 1..Len(tokenized) |-> disj(tokenized[b])])

RECURSIVE Tabs(_)
Tabs(n) == IF n <= 0 THEN "" ELSE "\t" \o Tabs(n - 1)

\* The guard of the rung: the inner loop of process_instruction_list over one
\* disjunct of instr_list[0]; j counts the conditions emitted so far.
RECURSIVE GuardFlist(_, _, _, _)
GuardFlist(flist, k, j, s) ==
    IF k > Len(flist) THEN s
    ELSE LET f == flist[k]
         IN  IF ~f.conditional
             THEN GuardFlist(flist, k + 1, j,
                      Append(s, "// ERROR: Non-conditional instruction at beginning of rung\n"))
             ELSE LET s1 == Append(s, CONDITIONAL_FUNCTIONS_IMPL(f.fname, f.params))
                      s2 == IF j + 1 < Len(flist) THEN Append(s1, " AND ") ELSE s1
                  IN  GuardFlist(flist, k + 1, j + 1, s2)

RECURSIVE GuardBlock(_, _, _)
GuardBlock(block, i, s) ==
    IF i > Len(block) THEN s
    ELSE LET s1 == GuardFlist(block[i], 1, 0, s)
             s2 == IF i < Len(block) THEN Append(s1, " OR ") ELSE s1
         IN  GuardBlock(block, i + 1, s2)

\* "IF (" c1 " AND " c2 ... ") THEN\n" for the pending conditions of a disjunct.
InnerGuard(cfl) ==
    <<"IF (">>
    \o [k \in 1..(2 * Len(cfl) - 1) |->
           IF k % 2 = 1 THEN CONDITIONAL_FUNCTIONS_IMPL(cfl[(k + 1) \div 2].fname,
                                                        cfl[(k + 1) \div 2].params)
           ELSE " AND "]
    \o <<") THEN\n">>

\* A mis-rendering of an unknown mnemonic: reported in the style of the arity
\* errors instead of as "// Unknown function: ...".
UnknownAsError(f) ==
    IF f.fname \in REGULAR_FUNCTIONS
    THEN <<REGULAR_FUNCTIONS_IMPL(f.fname, f.params, TRUE), "\n">>
    ELSE <<"// ERROR: Unknown function " \o f.fname \o "\n">>

\* "Process regular function": the text of f followed by "\n", or the
\* unknown-function comment.
RegularText(f) ==
    IF f.fname \in REGULAR_FUNCTIONS
    THEN <<REGULAR_FUNCTIONS_IMPL(f.fname, f.params, TRUE), "\n">>
    ELSE <<"// Unknown function: " \o f.fname \o "(" \o JoinStr(f.params, ", ") \o ")\n">>

\* One regular instruction f met with the pending conditions cfl.
RegularStep(f, cfl, tab, s) ==
    LET guarded == cfl # <<>>
        tab1 == IF guarded THEN tab + 1 ELSE tab
        s1 == IF guarded THEN s \o <<Tabs(tab)>> \o InnerGuard(cfl) ELSE s
        s2 == s1 \o <<Tabs(tab1)>> \o RegularText(f)
        s3 == IF guarded /\ f.fname = "OTE"
              THEN s2 \o <<Tabs(tab1 - 1), "ELSE\n",
                           Tabs(tab1), REGULAR_FUNCTIONS_IMPL(f.fname, f.params, FALSE), "\n">>
              ELSE s2
        s4 == IF guarded THEN s3 \o <<Tabs(tab1 - 1), "END_IF;\n">> ELSE s3
    IN  [s |-> s4, tab |-> IF guarded THEN tab1 - 1 ELSE tab1]

\* The loop over one disjunct of the action block: conditions are collected
\* until a regular instruction uses them.
RECURSIVE ActionFlist(_, _, _, _, _)
ActionFlist(flist, k, cfl, tab, s) ==
    IF k > Len(flist) THEN [s |-> s, tab |-> tab]
    ELSE LET f == flist[k]
         IN  IF f.conditional THEN ActionFlist(flist, k + 1, Append(cfl, f), tab, s)
             ELSE LET r == RegularStep(f, cfl, tab, s)
                  IN  ActionFlist(flist, k + 1, <<>>, r.tab, r.s)

RECURSIVE ActionBlock(_, _, _, _)
ActionBlock(block, i, tab, s) ==
    IF i > Len(block) THEN s
    ELSE LET r == ActionFlist(block[i], 1, <<>>, tab, s)
         IN  ActionBlock(block, i + 1, r.tab, r.s)

\* A rendering that leaves the rung's own IF open.
process_instruction_list_unclosed(il) ==
    LET conditional_rung == Len(il) > 1
        s0 == IF conditional_rung
              THEN GuardBlock(il[1], 1, <<"IF (">>) \o <<") THEN\n">>
              ELSE <<>>
        instruction_index == IF conditional_rung THEN 1 ELSE 0
    IN  IF instruction_index < Len(il)
        THEN ActionBlock(il[instruction_index + 1], 1,
                         IF conditional_rung THEN 1 ELSE 0, s0)
        ELSE s0

process_instruction_list(il) ==
    LET conditional_rung == Len(il) > 1
        s0 == IF conditional_rung
              THEN GuardBlock(il[1], 1, <<"IF (">>) \o <<") THEN\n">>
              ELSE <<>>
        instruction_index == IF conditional_rung THEN 1 ELSE 0
        s1 == IF instruction_index < Len(il)
              THEN ActionBlock(il[instruction_index + 1], 1,
                               IF conditional_rung THEN 1 ELSE 0, s0)
              ELSE s0
    IN  IF conditional_rung THEN Append(s1, "END_IF;\n") ELSE s1

process_rung(rung_text) ==
    process_instruction_list(process_rung_instructions(format_rung_text(rung_text)))

(***************************************************************************)
(* The rung texts fed to the translator: up to MaxItems items, each a call *)
(* or a separator character.                                               *)
(***************************************************************************)
MaxItems == 4

Call(fname, params) ==
    <<fname, "(">>
    \o [k \in 1..(2 * Len(params) - 1) |-> IF k % 2 = 1 THEN params[(k + 1) \div 2] ELSE ","]
    \o <<")">>

ConditionCalls ==
    {Call("XIC", <<"Start">>), Call("XIO", <<"Stop">>), Call("EQU", <<"Level">>)}

ActionCalls ==
    {Call("OTE", <<"Run">>), Call("TON", <<"T1", "T#5s", "Elapsed">>),
     Call("MOV", <<"Level">>), Call("FOO", <<"P", "Q">>)}

Separators == {<<",">>, <<"[">>, <<"]">>}

RungItems == ConditionCalls \cup ActionCalls \cup Separators

RECURSIVE Flatten(_)
Flatten(items) == IF items = <<>> THEN <<>> ELSE Head(items) \o Flatten(Tail(items))

ItemLists == UNION {[1..n -> RungItems] : n \in 0..MaxItems}

RungTexts == {Flatten(items) : items \in ItemLists}

(***************************************************************************)
(* translate_ladder_to_st                                                  *)
(***************************************************************************)
InitLD ==
    /\ rung \in RungTexts
    /\ formatted = <<>>
    /\ instr_list = <<>>
    /\ st = <<>>
    /\ ld_pc = "start"
    /\ sheets = <<>> /\ input_refs = <<>> /\ output_refs = <<>>
    /\ function_blocks = <<>> /\ wires = <<>> /\ execution_order = <<>>
    /\ st_code = <<>> /\ fbd_pc = "idle"
    /\ document = <<>> /\ original = <<>> /\ l5x_xml = <<>> /\ converted = <<>>
    /\ score = <<>> /\ ir_pc = "idle" /\ conversion_metadata = <<>>
    /\ identifier = <<>> /\ results = <<>>
    /\ st_source = <<>> /\ variables = <<>> /\ user_types = {} /\ program_logic = <<>>
    /\ l5x_root = <<>> /\ lift_pc = "idle"
    /\ validated_project = <<>> /\ validation = <<>> /\ val_pc = "idle"
    /\ argv = <<>> /\ input_file = <<>> /\ output_file = <<>> /\ exit_code = 0
    /\ echoed = <<>> /\ cli_pc = "idle"
    /\ state = <<>> /\ add_calls = <<>> /\ parsed_files = <<>> /\ consolidated = <<>> /\ called = <<>>

translate_ladder_to_st ==
    /\ ld_pc = "start"
    /\ formatted' = format_rung_text(rung)
    /\ instr_list' = process_rung_instructions(formatted')
    /\ st' = process_instruction_list(instr_list')
    /\ ld_pc' = "done"
    /\ UNCHANGED rung

NextLD == translate_ladder_to_st /\ UNCHANGED <<fbdVars, irVars, sanVars, liftVars, valVars, cliVars, convVars>>

(***************************************************************************)
(* The rungs of groups fed to the translator: a bracketed group of one or  *)
(* two disjuncts, then up to MaxGroups bracketed groups of actions.        *)
(***************************************************************************)
MaxGroups == 2

Disjuncts ==
    {<<Call("XIC", <<"Start">>)>>, <<Call("XIO", <<"Stop">>)>>,
     <<Call("XIC", <<"Start">>), Call("XIO", <<"Stop">>)>>}

ActionGroups ==
    {<<Call("OTE", <<"Run">>)>>, <<Call("OTL", <<"Lamp">>)>>,
     <<Call("OTE", <<"Run">>), Call("OTL", <<"Lamp">>)>>,
     <<Call("OTL", <<"Lamp">>), Call("OTE", <<"Run">>)>>}

FirstGroups == [1..1 -> Disjuncts] \cup [1..2 -> Disjuncts]

LaterGroups == UNION {[1..k -> ActionGroups] : k \in 1..MaxGroups}

\* [ d1 , d2 ] [ a a ] [ a ] ...
GroupRung(first, later) ==
    <<"[">>
    \o Flatten([k \in 1..(2 * Len(first) - 1) |->
                   IF k % 2 = 1 THEN Flatten(first[(k + 1) \div 2]) ELSE <<",">>])
    \o <<"]">>
    \o Flatten([k \in 1..Len(later) |-> <<"[">> \o Flatten(later[k]) \o <<"]">>])

GroupRungs == {GroupRung(x[1], x[2]) : x \in FirstGroups \X LaterGroups}

InitGroups ==
    /\ rung \in GroupRungs
    /\ formatted = <<>>
    /\ instr_list = <<>>
    /\ st = <<>>
    /\ ld_pc = "start"
    /\ sheets = <<>> /\ input_refs = <<>> /\ output_refs = <<>>
    /\ function_blocks = <<>> /\ wires = <<>> /\ execution_order = <<>>
    /\ st_code = <<>> /\ fbd_pc = "idle"
    /\ document = <<>> /\ original = <<>> /\ l5x_xml = <<>> /\ converted = <<>>
    /\ score = <<>> /\ ir_pc = "idle" /\ conversion_metadata = <<>>
    /\ identifier = <<>> /\ results = <<>>
    /\ st_source = <<>> /\ variables = <<>> /\ user_types = {} /\ program_logic = <<>>
    /\ l5x_root = <<>> /\ lift_pc = "idle"
    /\ validated_project = <<>> /\ validation = <<>> /\ val_pc = "idle"
    /\ argv = <<>> /\ input_file = <<>> /\ output_file = <<>> /\ exit_code = 0
    /\ echoed = <<>> /\ cli_pc = "idle"
    /\ state = <<>> /\ add_calls = <<>> /\ parsed_files = <<>> /\ consolidated = <<>> /\ called = <<>>

(***************************************************************************)
(* fbd_translator.py                                                       *)
(***************************************************************************)
\* dict.__setitem__ on an insertion-ordered dict: a new key goes last, an
\* existing key keeps its place.
DictSet(d, k, v) ==
    [ids |-> IF \E i \in 1..Len(d.ids) : d.ids[i] = k THEN d.ids ELSE Append(d.ids, k),
     info |-> [x \in DOMAIN d.info \cup {k} |-> IF x = k THEN v ELSE d.info[x]]]

MapSet(m, k, v) == [x \in DOMAIN m \cup {k} |-> IF x = k THEN v ELSE m[x]]

EmptyMap == [x \in {} |-> ""]

RECURSIVE ParseRefs(_, _)
ParseRefs(refs, m) ==
    IF refs = <<>> THEN m
    ELSE ParseRefs(Tail(refs),
                   IF Head(refs).id # "" /\ Head(refs).operand # ""
                   THEN MapSet(m, Head(refs).id, Head(refs).operand) ELSE m)

RECURSIVE ParseFunctionBlocks(_, _)
ParseFunctionBlocks(fbs, d) ==
    IF fbs = <<>> THEN d
    ELSE LET fb == Head(fbs)
         IN  ParseFunctionBlocks(Tail(fbs),
                 IF fb.id # "" /\ fb.name # ""
                 THEN DictSet(d, fb.id, [name |-> fb.name, operand |-> fb.operand,
                                         inputs |-> fb.inputs])
                 ELSE d)

ParseWires(ws, list) == list \o SelectSeq(ws, LAMBDA w : w.from_id # "" /\ w.to_id # "")

\* dependencies[to_id], for the wires between two function blocks.
Dependencies(fbs, ws) ==
    [b \in DOMAIN fbs.info |->
        {ws[i].from_id : i \in {j \in 1..Len(ws) :
            ws[j].to_id = b /\ ws[j].from_id \in DOMAIN fbs.info}}]

\* The elements of set S as a sequence, in the order given by rank (the
\* iteration order of a Python set of strings is not fixed by the program).
RECURSIVE InRankOrder(_, _)
InRankOrder(S, rank) ==
    IF S = {} THEN <<>>
    ELSE LET x == CHOOSE x \in S : \A y \in S : rank[x] <= rank[y]
         IN  <<x>> \o InRankOrder(S \ {x}, rank)

RECURSIVE visit(_, _, _, _, _)
RECURSIVE VisitAll(_, _, _, _, _)
\* v = [visited, temp_visited, order]
\* A visit that does not consult the visited set.
visit_again(fb_id, v, deps, fbs, rank) ==
    IF fb_id \in v.temp_visited THEN v
    ELSE LET v1 == [v EXCEPT !.temp_visited = @ \cup {fb_id}]
             todo == SelectSeq(InRankOrder(deps[fb_id], rank),
                               LAMBDA d : d \in DOMAIN fbs.info)
             v2 == VisitAll(todo, v1, deps, fbs, rank)
         IN  [visited |-> v2.visited \cup {fb_id},
              temp_visited |-> v2.temp_visited \ {fb_id},
              order |-> Append(v2.order, fb_id)]

visit(fb_id, v, deps, fbs, rank) ==
    IF fb_id \in v.temp_visited THEN v
    ELSE IF fb_id \in v.visited THEN v
    ELSE LET v1 == [v EXCEPT !.temp_visited = @ \cup {fb_id}]
             todo == SelectSeq(InRankOrder(deps[fb_id], rank),
                               LAMBDA d : d \in DOMAIN fbs.info)
             v2 == VisitAll(todo, v1, deps, fbs, rank)
         IN  [visited |-> v2.visited \cup {fb_id},
              temp_visited |-> v2.temp_visited \ {fb_id},
              order |-> Append(v2.order, fb_id)]

VisitAll(ids, v, deps, fbs, rank) ==
    IF ids = <<>> THEN v
    ELSE VisitAll(Tail(ids), visit(Head(ids), v, deps, fbs, rank), deps, fbs, rank)

\* self.execution_order after _determine_execution_order: the list is appended
\* to; visited and temp_visited are local to the call.
determine_execution_order(order, fbs, ws, rank) ==
    VisitAll(fbs.ids, [visited |-> {}, temp_visited |-> {}, order |-> order],
             Dependencies(fbs, ws), fbs, rank).order

NoSource == "<None>"

\* A resolution of function-block pins that ignores the block's
\* InOutParameter bindings.
SourcePinOnly(from_id, from_param, irefs, orefs, fbs) ==
    IF from_id \in DOMAIN irefs THEN irefs[from_id]
    ELSE IF from_id \in DOMAIN orefs THEN orefs[from_id]
    ELSE IF from_id \in DOMAIN fbs.info /\ from_param # ""
    THEN fbs.info[from_id].operand \o "." \o from_param
    ELSE NoSource

get_source_value(from_id, from_param, irefs, orefs, fbs) ==
    IF from_id \in DOMAIN irefs THEN irefs[from_id]
    ELSE IF from_id \in DOMAIN orefs THEN orefs[from_id]
    ELSE IF from_id \in DOMAIN fbs.info /\ from_param # ""
            /\ from_param \in DOMAIN fbs.info[from_id].inputs
    THEN fbs.info[from_id].inputs[from_param]
    ELSE IF from_id \in DOMAIN fbs.info /\ from_param # ""
    THEN fbs.info[from_id].operand \o "." \o from_param
    ELSE NoSource

\* A line is a sequence of pieces: operand "(" binding ", " binding ... ");"
generate_fb_code(fb_id, irefs, orefs, fbs, ws) ==
    LET src(w) == get_source_value(w.from_id, w.from_param, irefs, orefs, fbs)
        bound == SelectSeq(ws, LAMBDA w : w.to_id = fb_id /\ w.to_param # ""
                                           /\ src(w) # NoSource)
        params == [k \in 1..Len(bound) |-> bound[k].to_param \o " := " \o src(bound[k])]
    IN  <<fbs.info[fb_id].operand, "(">>
        \o [k \in 1..(2 * Len(params) - 1) |->
               IF k % 2 = 1 THEN params[(k + 1) \div 2] ELSE ", "]
        \o <<");">>

generate_output_assignments(orefs, fbs, ws) ==
    LET out == SelectSeq(ws, LAMBDA w : w.from_id \in DOMAIN fbs.info
                                        /\ w.to_id \in DOMAIN orefs
                                        /\ w.from_param # "")
    IN  [k \in 1..Len(out) |->
            <<orefs[out[k].to_id], " := ",
              fbs.info[out[k].from_id].operand \o "." \o out[k].from_param, ";">>]

generate_st_code(order, irefs, orefs, fbs, ws) ==
    [k \in 1..Len(order) |-> generate_fb_code(order[k], irefs, orefs, fbs, ws)]
    \o generate_output_assignments(orefs, fbs, ws)

(***************************************************************************)
(* The sheets fed to the translator.  Element IDs are local to a sheet (every *)
(* sheet numbers its elements from 0); the operands name distinct tags and *)
(* instances on every sheet.                                               *)
(***************************************************************************)
MaxSheets == 2
MaxWires == 2

Wire(f, fp, t, tp) == [from_id |-> f, from_param |-> fp, to_id |-> t, to_param |-> tp]

\* IRef 0, blocks 1 and 2, ORef 3.
WireCandidates ==
    <<Wire("0", "", "1", "In"),       \* input reference -> block 1
      Wire("1", "Out", "2", "In"),    \* block 1 -> block 2
      Wire("2", "Out", "1", "Fb"),    \* block 2 -> block 1
      Wire("1", "IO", "2", "Aux"),    \* an InOutParameter pin of block 1 -> block 2
      Wire("2", "Out", "3", ""),      \* block 2 -> output reference
      Wire("1", "Out", "1", "Loop"),  \* block 1 -> itself
      Wire("3", "", "2", "Ref")>>     \* output reference -> block 2

WireChoices == {S \in SUBSET (1..Len(WireCandidates)) : Cardinality(S) <= MaxWires}

RECURSIVE Pick(_, _, _)
Pick(cands, S, k) ==
    IF k > Len(cands) THEN <<>>
    ELSE (IF k \in S THEN <<cands[k]>> ELSE <<>>) \o Pick(cands, S, k + 1)

Sheet(n, S) ==
    LET num == ToString(n)
    IN  [irefs |-> <<[id |-> "0", operand |-> "In" \o num]>>,
         orefs |-> <<[id |-> "3", operand |-> "Out" \o num]>>,
         fbs |-> <<[id |-> "1", name |-> "PID", operand |-> "A" \o num,
                    inputs |-> [p \in {"IO"} |-> "Shared" \o num]],
                   [id |-> "2", name |-> "SCL", operand |-> "B" \o num,
                    inputs |-> EmptyMap]>>,
         wires |-> Pick(WireCandidates, S, 1)]

Ranks == {r \in [{"1", "2"} -> 1..2] : r["1"] # r["2"]}

\* FBDTranslator() followed by the clear() calls of parse_fbd_content.
InitFBD ==
    /\ sheets = <<>>
    /\ input_refs = EmptyMap
    /\ output_refs = EmptyMap
    /\ function_blocks = [ids |-> <<>>, info |-> EmptyMap]
    /\ wires = <<>>
    /\ execution_order = <<>>
    /\ st_code = <<>>
    /\ fbd_pc = "parsing"
    /\ rung = <<>> /\ formatted = <<>> /\ instr_list = <<>> /\ st = <<>>
    /\ ld_pc = "idle"
    /\ document = <<>> /\ original = <<>> /\ l5x_xml = <<>> /\ converted = <<>>
    /\ score = <<>> /\ ir_pc = "idle" /\ conversion_metadata = <<>>
    /\ identifier = <<>> /\ results = <<>>
    /\ st_source = <<>> /\ variables = <<>> /\ user_types = {} /\ program_logic = <<>>
    /\ l5x_root = <<>> /\ lift_pc = "idle"
    /\ validated_project = <<>> /\ validation = <<>> /\ val_pc = "idle"
    /\ argv = <<>> /\ input_file = <<>> /\ output_file = <<>> /\ exit_code = 0
    /\ echoed = <<>> /\ cli_pc = "idle"
    /\ state = <<>> /\ add_calls = <<>> /\ parsed_files = <<>> /\ consolidated = <<>> /\ called = <<>>

\* _parse_sheet on the next Sheet element and the two appends to st_code, on
\* the translator state t.
parse_sheet_result(t, sheet, sheet_num, rank) ==
    LET irefs == ParseRefs(sheet.irefs, t.input_refs)
        orefs == ParseRefs(sheet.orefs, t.output_refs)
        fbs == ParseFunctionBlocks(sheet.fbs, t.function_blocks)
        ws == ParseWires(sheet.wires, t.wires)
        order == determine_execution_order(t.execution_order, fbs, ws, rank)
        sheet_code == generate_st_code(order, irefs, orefs, fbs, ws)
    IN  [input_refs |-> irefs, output_refs |-> orefs, function_blocks |-> fbs,
         wires |-> ws, execution_order |-> order,
         st_code |-> IF sheet_code # <<>>
                     THEN Append(t.st_code,
                                 [header |-> <<"// Sheet ", ToString(sheet_num)>>,
                                  code |-> sheet_code])
                     ELSE t.st_code]

\* FBDTranslator() followed by the clear() calls of parse_fbd_content.
NewTranslator ==
    [input_refs |-> EmptyMap, output_refs |-> EmptyMap,
     function_blocks |-> [ids |-> <<>>, info |-> EmptyMap],
     wires |-> <<>>, execution_order |-> <<>>, st_code |-> <<>>]

\* One iteration of the loop of parse_fbd_content.
parse_sheet(sheet, rank) ==
    /\ fbd_pc = "parsing"
    /\ Len(sheets) < MaxSheets
    /\ \E r \in {parse_sheet_result(
                    [input_refs |-> input_refs, output_refs |-> output_refs,
                     function_blocks |-> function_blocks, wires |-> wires,
                     execution_order |-> execution_order, st_code |-> st_code],
                    sheet, Len(sheets) + 1, rank)} :
           /\ input_refs' = r.input_refs
           /\ output_refs' = r.output_refs
           /\ function_blocks' = r.function_blocks
           /\ wires' = r.wires
           /\ execution_order' = r.execution_order
           /\ st_code' = r.st_code
    /\ sheets' = Append(sheets, sheet)
    /\ UNCHANGED fbd_pc

\* return "\n".join(st_code)
parse_fbd_content_returns ==
    /\ fbd_pc = "parsing"
    /\ fbd_pc' = "returned"
    /\ UNCHANGED <<sheets, input_refs, output_refs, function_blocks, wires,
                   execution_order, st_code>>

NextFBD ==
    \/ \E S \in WireChoices, rank \in Ranks :
           parse_sheet(Sheet(Len(sheets) + 1, S), rank) /\ UNCHANGED <<ldVars, irVars, sanVars, liftVars, valVars, cliVars, convVars>>
    \/ parse_fbd_content_returns /\ UNCHANGED <<ldVars, irVars, sanVars, liftVars, valVars, cliVars, convVars>>

(***************************************************************************)
(* ir_converter.py                                                         *)
(***************************************************************************)
\* An xml.etree.ElementTree element.
Element(tag, attrib, children, text) ==
    [tag |-> tag, attrib |-> attrib, children |-> children, text |-> text]

\* elem.get(key, default)
Get(elem, key, default) ==
    IF key \in DOMAIN elem.attrib THEN elem.attrib[key] ELSE default

\* The descendants of elem in document order.
RECURSIVE iter(_)
iter(elem) ==
    Flatten([i \in 1..Len(elem.children) |->
                <<elem.children[i]>> \o iter(elem.children[i])])

\* elem.findall('.//tag') and elem.findall('tag')
findall(elem, tag) == SelectSeq(iter(elem), LAMBDA c : c.tag = tag)
findchildren(elem, tag) == SelectSeq(elem.children, LAMBDA c : c.tag = tag)

\* The strings of the model that float() parses, that hold a ".", and their
\* upper-case forms.
FloatLiterals == {"Inf", "NaN", "0", "1", "2.5"}
WithDot == {"2.5"}
BoolWords == {"TRUE", "FALSE", "True", "False", "true", "false", "1", "0"}

is_numeric(value) == value \in FloatLiterals

get_data_type(value) ==
    IF is_numeric(value) THEN (IF value \in WithDot THEN "REAL" ELSE "INT")
    ELSE IF value \in BoolWords THEN "BOOL"
    ELSE "STRING"

\* re.sub(r'\[.*?\]', '', ...), re.sub(r'<.*?>', '', ...) and strip() on the
\* data-type strings of the model.
get_base_data_type(data_type) ==
    CASE data_type = "DINT[10]" -> "DINT"
      [] data_type = "STRING<82>" -> "STRING"
      [] OTHER -> data_type

\* str.strip() on the texts of the model.
strip(text) ==
    CASE text = " y := 2; " -> "y := 2;"
      [] text = "\nz := 3;\n" -> "z := 3;"
      [] OTHER -> text

(* The project accessor handed to l5x_to_ir: the controller element, the Tag *)
(* elements of a scope's Tags section, the Program elements of the         *)
(* controller's Programs section, a tag's data type and value.             *)
AccessorController(project) == findchildren(project, "Controller")[1]

AccessorTags(scope_elem) ==
    Flatten([i \in 1..Len(findchildren(scope_elem, "Tags")) |->
                findchildren(findchildren(scope_elem, "Tags")[i], "Tag")])

AccessorPrograms(project) ==
    Flatten([i \in 1..Len(findchildren(AccessorController(project), "Programs")) |->
                findchildren(findchildren(AccessorController(project), "Programs")[i],
                             "Program")])

AccessorDataType(tag_data) == Get(tag_data, "DataType", "UNKNOWN")
AccessorValue(tag_data) == Get(tag_data, "Value", "")

\* The accessor raises when asked for a tag it does not support.
AccessorRaises(tag_data) == Get(tag_data, "TagType", "Base") = "Unsupported"

extract_tag_ir(name, tag_data, scope) ==
    [name |-> name,
     data_type |-> get_data_type(AccessorDataType(tag_data)),
     scope |-> scope,
     value |-> AccessorValue(tag_data)]

ExtractTagsAbort(scope_elem, scope) ==
    LET tag_elems == AccessorTags(scope_elem)
    IN  IF \E i \in 1..Len(tag_elems) : AccessorRaises(tag_elems[i]) THEN <<>>
        ELSE [i \in 1..Len(tag_elems) |->
                 extract_tag_ir(Get(tag_elems[i], "Name", ""), tag_elems[i], scope)]

\* The loop over tags.names: a tag whose lookup or extraction raises is
\* logged and left out, the loop goes on.
ExtractTags(scope_elem, scope) ==
    LET tag_elems == AccessorTags(scope_elem)
        extracted == SelectSeq(tag_elems, LAMBDA tag_data : ~AccessorRaises(tag_data))
    IN  [i \in 1..Len(extracted) |->
            extract_tag_ir(Get(extracted[i], "Name", ""), extracted[i], scope)]

extract_data_types_ir(controller_element) ==
    LET elems == findall(controller_element, "DataType")
    IN  [i \in 1..Len(elems) |->
            [name |-> Get(elems[i], "Name", "Unknown"),
             base_type |-> Get(elems[i], "Use", ""),
             members |-> LET ms == findall(elems[i], "Member")
                         IN  [k \in 1..Len(ms) |->
                                 [name |-> Get(ms[k], "Name", "Unknown"),
                                  data_type |-> Get(ms[k], "DataType", "UNKNOWN")]]]]

extract_function_blocks_ir(controller_element) ==
    LET elems == findall(controller_element, "AddOnInstruction")
        params(e, tag, kind) ==
            LET ps == findall(e, tag)
            IN  [k \in 1..Len(ps) |->
                    [name |-> Get(ps[k], "Name", "Unknown"),
                     data_type |-> Get(ps[k], "DataType", "UNKNOWN"),
                     parameter_type |-> IF kind = "" THEN Get(ps[k], "Usage", "Input")
                                        ELSE kind,
                     required |-> kind # "" \/ Get(ps[k], "Required", "true")
                                                 \in {"true", "True", "TRUE"}]]
    IN  [i \in 1..Len(elems) |->
            [name |-> Get(elems[i], "Name", "Unknown"),
             parameters |-> params(elems[i], "Parameter", ""),
             local_variables |-> params(elems[i], "LocalTag", "Local")]]

extract_controller_ir(project) ==
    [name |-> Get(AccessorController(project), "Name", "Unknown_Controller"),
     tags |-> ExtractTags(AccessorController(project), "Controller"),
     data_types |-> extract_data_types_ir(AccessorController(project)),
     function_blocks |-> extract_function_blocks_ir(AccessorController(project))]

\* str.upper() on the routine type names of the model.
upper(s) ==
    CASE s = "st" -> "ST"
      [] s = "rll" -> "RLL"
      [] s = "fbd" -> "FBD"
      [] OTHER -> s

\* A Sheet element as the translator reads it.
SheetOfElement(sheet) ==
    LET ref(e) == [id |-> Get(e, "ID", ""), operand |-> Get(e, "Operand", "")]
        irefs == findchildren(sheet, "IRef")
        orefs == findchildren(sheet, "ORef")
        fbs == findchildren(sheet, "AddOnInstruction")
        ws == findchildren(sheet, "Wire")
        inputs(fb) ==
            LET ps == SelectSeq(findchildren(fb, "InOutParameter"),
                                LAMBDA p : Get(p, "Name", "") # "" /\ Get(p, "Argument", "") # "")
            IN  [n \in {Get(ps[k], "Name", "") : k \in 1..Len(ps)} |->
                    Get(ps[CHOOSE k \in 1..Len(ps) :
                              /\ Get(ps[k], "Name", "") = n
                              /\ \A j \in 1..Len(ps) : Get(ps[j], "Name", "") = n => j <= k],
                        "Argument", "")]
    IN  [irefs |-> [k \in 1..Len(irefs) |-> ref(irefs[k])],
         orefs |-> [k \in 1..Len(orefs) |-> ref(orefs[k])],
         fbs |-> [k \in 1..Len(fbs) |->
                     [id |-> Get(fbs[k], "ID", ""), name |-> Get(fbs[k], "Name", ""),
                      operand |-> Get(fbs[k], "Operand", ""), inputs |-> inputs(fbs[k])]],
         wires |-> [k \in 1..Len(ws) |->
                       Wire(Get(ws[k], "FromID", ""), Get(ws[k], "FromParam", ""),
                            Get(ws[k], "ToID", ""), Get(ws[k], "ToParam", ""))]]

RECURSIVE ParseSheets(_, _, _, _)
ParseSheets(sheet_elems, k, t, rank) ==
    IF k > Len(sheet_elems) THEN t
    ELSE ParseSheets(sheet_elems, k + 1,
                     parse_sheet_result(t, SheetOfElement(sheet_elems[k]), k, rank), rank)

\* translate_fbd_to_st: a new FBDTranslator, parse_fbd_content on the element.
translate_fbd_to_st(fbd_content, rank) ==
    LET t == ParseSheets(findchildren(fbd_content, "Sheet"), 1, NewTranslator, rank)
        text(entry) ==
            <<Concat(entry.header),
              JoinStr([k \in 1..Len(entry.code) |-> Concat(entry.code[k])], "\n")>>
    IN  IF t.st_code = <<>> THEN "// No FBD content to translate"
        ELSE JoinStr(Flatten([k \in 1..Len(t.st_code) |-> text(t.st_code[k])]), "\n")

extract_routine_content_from_xml(routine_elem, routine_type, rank) ==
    IF upper(routine_type) \in {"RLL", "LADDER"}
    THEN LET rungs == SelectSeq(findall(routine_elem, "Rung"),
                                LAMBDA r : Get(r, "Text", <<>>) # <<>>)
         IN  JoinStr([k \in 1..Len(rungs) |->
                         Concat(process_rung(Get(rungs[k], "Text", <<>>)))], "\n")
    ELSE IF upper(routine_type) = "FBD"
    THEN translate_fbd_to_st(routine_elem, rank)
    ELSE LET texts == findall(routine_elem, "Text")
             line(text_elem) ==
                 LET cdata == findall(text_elem, "CDATAContent")
                 IN  IF cdata # <<>> /\ cdata[1].text # "" THEN <<strip(cdata[1].text)>>
                     ELSE IF text_elem.text # "" THEN <<strip(text_elem.text)>>
                     ELSE <<>>
         IN  JoinStr(Flatten([k \in 1..Len(texts) |-> line(texts[k])]), "\n")

extract_routines_from_xml(program_element, rank) ==
    LET found == findall(program_element, "Routines")
        elems == IF found = <<>> THEN <<>> ELSE findall(found[1], "Routine")
        kind(t) == IF upper(t) \in {"RLL", "LADDER"} THEN "RLL"
                   ELSE IF upper(t) = "FBD" THEN "FBD"
                   ELSE IF upper(t) = "SFC" THEN "SFC"
                   ELSE "ST"
    IN  [k \in 1..Len(elems) |->
            [name |-> Get(elems[k], "Name", "Unknown"),
             routine_type |-> kind(Get(elems[k], "Type", "ST")),
             content |-> extract_routine_content_from_xml(elems[k],
                             Get(elems[k], "Type", "ST"), rank)]]

\* The accessor's programs expose tags and the element; routines come from
\* the element walk.
extract_program_ir(name, program_data, rank) ==
    [name |-> name,
     tags |-> ExtractTags(program_data, "Program"),
     routines |-> extract_routines_from_xml(program_data, rank),
     main_routine |-> ""]

extract_programs_ir(project, rank) ==
    [k \in 1..Len(AccessorPrograms(project)) |->
        extract_program_ir(Get(AccessorPrograms(project)[k], "Name", ""),
                           AccessorPrograms(project)[k], rank)]

l5x_to_ir(project, rank) ==
    [controller |-> extract_controller_ir(project),
     programs |-> extract_programs_ir(project, rank)]

\* The ConversionMetadata the converter is constructed with, and the update
\* at the end of l5x_to_ir: the component counts, and nothing else.
ConversionMetadata == [original_components |-> EmptyMap, warnings |-> <<>>, errors |-> <<>>]

update_metadata(metadata, ir_project) ==
    [metadata EXCEPT !.original_components =
        [tags |-> Len(ir_project.controller.tags),
         data_types |-> Len(ir_project.controller.data_types),
         function_blocks |-> Len(ir_project.controller.function_blocks),
         programs |-> Len(ir_project.programs),
         routines |-> Len(Flatten([k \in 1..Len(ir_project.programs) |->
                                      ir_project.programs[k].routines]))]]

\* <<x>> if cond, else nothing: an optional child or attribute.
Opt(cond, x) == IF cond THEN <<x>> ELSE <<>>

add_data_type_to_xml(data_type) ==
    Element("DataType",
            IF data_type.base_type # ""
            THEN [Name |-> data_type.name, Use |-> data_type.base_type]
            ELSE [Name |-> data_type.name],
            [k \in 1..Len(data_type.members) |->
                Element("Member", [Name |-> data_type.members[k].name,
                                   DataType |-> data_type.members[k].data_type], <<>>, "")],
            "")

add_function_block_to_xml(fb) ==
    Element("AddOnInstructionDefinition", [Name |-> fb.name],
            Opt(fb.parameters # <<>>,
                Element("Parameters", EmptyMap,
                        [k \in 1..Len(fb.parameters) |->
                            Element("Parameter",
                                    [Name |-> fb.parameters[k].name,
                                     DataType |-> fb.parameters[k].data_type,
                                     Usage |-> fb.parameters[k].parameter_type,
                                     Required |-> IF fb.parameters[k].required
                                                  THEN "true" ELSE "false"],
                                    <<>>, "")], ""))
            \o Opt(fb.local_variables # <<>>,
                   Element("LocalTags", EmptyMap,
                           [k \in 1..Len(fb.local_variables) |->
                               Element("LocalTag",
                                       [Name |-> fb.local_variables[k].name,
                                        DataType |-> fb.local_variables[k].data_type],
                                       <<>>, "")], "")),
            "")

add_tag_to_xml(tag) ==
    Element("Tag",
            IF tag.value # ""
            THEN [Name |-> tag.name, TagType |-> "Base", DataType |-> tag.data_type,
                  Value |-> tag.value]
            ELSE [Name |-> tag.name, TagType |-> "Base", DataType |-> tag.data_type],
            <<>>, "")

add_routine_to_xml(routine) ==
    Element("Routine", [Name |-> routine.name, Type |-> routine.routine_type],
            Opt(routine.content # "",
                Element("Text", EmptyMap,
                        <<Element("CDATAContent", EmptyMap, <<>>, routine.content)>>, "")),
            "")

add_program_to_xml(program) ==
    Element("Program", [Name |-> program.name],
            Opt(program.tags # <<>>,
                Element("Tags", EmptyMap,
                        [k \in 1..Len(program.tags) |-> add_tag_to_xml(program.tags[k])], ""))
            \o Opt(program.routines # <<>>,
                   Element("Routines", EmptyMap,
                           [k \in 1..Len(program.routines) |->
                               add_routine_to_xml(program.routines[k])], ""))
            \o Opt(program.main_routine # "",
                   Element("MainRoutineName", [Value |-> program.main_routine], <<>>, "")),
            "")

ir_to_l5x(ir_project) ==
    LET c == ir_project.controller
    IN  Element("RSLogix5000Content",
                [SchemaRevision |-> "1.0", SoftwareRevision |-> "20.01",
                 TargetName |-> c.name, TargetType |-> "Program",
                 ContainsContext |-> "true"],
                <<Element("Controller",
                    [Name |-> c.name, ProcessorType |-> "Logix5580", MajorRev |-> "20",
                     MinorRev |-> "1", TimeSlice |-> "20", ShareUnusedTimeSlice |-> "1",
                     ProjectCreationDate |-> "Mon Jan 01 00:00:00 2024",
                     LastModifiedDate |-> "Mon Jan 01 00:00:00 2024",
                     SFCExecutionControl |-> "CurrentActive",
                     SFCRestartPosition |-> "MostRecent", ProjectSN |-> "16#0000_0000"],
                    Opt(c.data_types # <<>>,
                        Element("DataTypes", EmptyMap,
                                [k \in 1..Len(c.data_types) |->
                                    add_data_type_to_xml(c.data_types[k])], ""))
                    \o Opt(c.function_blocks # <<>>,
                           Element("AddOnInstructionDefinitions", EmptyMap,
                                   [k \in 1..Len(c.function_blocks) |->
                                       add_function_block_to_xml(c.function_blocks[k])], ""))
                    \o Opt(c.tags # <<>>,
                           Element("Tags", EmptyMap,
                                   [k \in 1..Len(c.tags) |-> add_tag_to_xml(c.tags[k])], ""))
                    \o Opt(ir_project.programs # <<>>,
                           Element("Programs", EmptyMap,
                                   [k \in 1..Len(ir_project.programs) |->
                                       add_program_to_xml(ir_project.programs[k])], "")),
                    "")>>,
                "")

\* {x.name: x for x in components}: the last component of a name is kept.
ByName(components) ==
    [n \in {components[i].name : i \in 1..Len(components)} |->
        components[CHOOSE i \in 1..Len(components) :
                      /\ components[i].name = n
                      /\ \A j \in 1..Len(components) : components[j].name = n => j <= i]]

\* matched_components / total_components as a fraction; 1.0 is 1/1.
calculate_fidelity_score(orig, conv) ==
    LET original_tags == ByName(orig.controller.tags)
        converted_tags == ByName(conv.controller.tags)
        original_dts == ByName(orig.controller.data_types)
        converted_dts == ByName(conv.controller.data_types)
        original_progs == ByName(orig.programs)
        converted_progs == ByName(conv.programs)
        total_components == Cardinality(DOMAIN original_tags)
                            + Cardinality(DOMAIN original_dts)
                            + Cardinality(DOMAIN original_progs)
        matched_components ==
            Cardinality({n \in DOMAIN original_tags :
                            /\ n \in DOMAIN converted_tags
                            /\ original_tags[n].data_type = converted_tags[n].data_type
                            /\ original_tags[n].scope = converted_tags[n].scope})
            + Cardinality({n \in DOMAIN original_dts :
                            /\ n \in DOMAIN converted_dts
                            /\ Len(original_dts[n].members) = Len(converted_dts[n].members)})
            + Cardinality({n \in DOMAIN original_progs :
                            /\ n \in DOMAIN converted_progs
                            /\ Len(original_progs[n].routines)
                                 = Len(converted_progs[n].routines)})
    IN  IF total_components = 0 THEN [num |-> 1, den |-> 1]
        ELSE [num |-> matched_components, den |-> total_components]

(***************************************************************************)
(* The L5X documents handed to the extractor: controller tags of a base    *)
(* type or a user type of the document, user types, and at most one        *)
(* program with its routines.                                              *)
(***************************************************************************)
MaxTags == 2
MaxRoutines == 2

UserTypeNames == {"Rec", "Inf"}
TypeNames == {"DINT"} \cup UserTypeNames

Numbered(prefix, i) == prefix \o ToString(i)

TagElement(i, type) ==
    Element("Tag", [Name |-> Numbered("Tag", i), TagType |-> "Base", DataType |-> type],
            <<>>, "")

DataTypeElement(name) ==
    Element("DataType", [Name |-> name, Family |-> "NoFamily", Class |-> "User"],
            <<Element("Members", EmptyMap,
                      [k \in 1..(IF name = "Rec" THEN 2 ELSE 1) |->
                          Element("Member", [Name |-> Numbered("M", k), DataType |-> "DINT"],
                                  <<>>, "")], "")>>,
            "")

RoutineKinds == {"ST", "Text", "RLL", "RungText", "FBD"}

RoutineElement(i, kind) ==
    CASE kind = "ST" ->
            Element("Routine", [Name |-> Numbered("R", i), Type |-> "ST"],
                    <<Element("STContent", EmptyMap,
                              <<Element("Line", [Number |-> "0"], <<>>, "x := 1;")>>, "")>>, "")
      [] kind = "Text" ->
            Element("Routine", [Name |-> Numbered("R", i), Type |-> "ST"],
                    <<Element("Text", EmptyMap,
                              <<Element("CDATAContent", EmptyMap, <<>>, " y := 2; ")>>, "")>>, "")
      [] kind = "RLL" ->
            Element("Routine", [Name |-> Numbered("R", i), Type |-> "RLL"],
                    <<Element("RLLContent", EmptyMap,
                              <<Element("Rung", [Number |-> "0", Type |-> "N"],
                                        <<Element("Text", EmptyMap, <<>>, "XIC(Start)OTE(Run);")>>,
                                        "")>>, "")>>, "")
      [] kind = "RungText" ->
            Element("Routine", [Name |-> Numbered("R", i), Type |-> "RLL"],
                    <<Element("RLLContent", EmptyMap,
                              <<Element("Rung",
                                        [Number |-> "0", Type |-> "N",
                                         Text |-> Call("XIC", <<"Start">>) \o Call("OTE", <<"Run">>)],
                                        <<>>, "")>>, "")>>, "")
      [] kind = "FBD" ->
            Element("Routine", [Name |-> Numbered("R", i), Type |-> "FBD"],
                    <<Element("FBDContent", EmptyMap,
                              <<Element("Sheet", [Number |-> "1"],
                                        <<Element("AddOnInstruction",
                                                  [ID |-> "1", Name |-> "PID", Operand |-> "A1"],
                                                  <<>>, "")>>, "")>>, "")>>, "")

ProgramElement(kinds) ==
    Element("Program", [Name |-> "MainProgram"],
            <<Element("Tags", EmptyMap, <<TagElement(0, "DINT")>>, ""),
              Element("Routines", EmptyMap,
                      [i \in 1..Len(kinds) |-> RoutineElement(i, kinds[i])], "")>>,
            "")

\* types: the data types of the controller tags; defined_types: the user types
\* defined; programs: the routine kinds of each program.
Document(types, defined_types, programs) ==
    Element("RSLogix5000Content", [SchemaRevision |-> "1.0", TargetType |-> "Controller"],
            <<Element("Controller", [Name |-> "Plant"],
                      <<Element("DataTypes", EmptyMap,
                                [k \in 1..Len(defined_types) |-> DataTypeElement(defined_types[k])], ""),
                        Element("Tags", EmptyMap,
                                [i \in 1..Len(types) |-> TagElement(i, types[i])], ""),
                        Element("Programs", EmptyMap,
                                [k \in 1..Len(programs) |-> ProgramElement(programs[k])], "")>>,
                      "")>>,
            "")

SeqsUpTo(S, n) == UNION {[1..k -> S] : k \in 0..n}

Documents ==
    {Document(x[1], x[2], x[3]) :
        x \in {y \in SeqsUpTo(TypeNames, MaxTags)
                     \X {<<>>, <<"Rec">>, <<"Inf">>, <<"Rec", "Inf">>}
                     \X ({<<>>} \cup {<<kinds>> : kinds \in SeqsUpTo(RoutineKinds, MaxRoutines)}) :
                  \A i \in 1..Len(y[1]) :
                      y[1][i] \in UserTypeNames => \E k \in 1..Len(y[2]) : y[2][k] = y[1][i]}}

(***************************************************************************)
(* The IR projects handed to the scorer directly.                          *)
(***************************************************************************)
MaxComponents == 2

IRTag(name, data_type, scope) ==
    [name |-> name, data_type |-> data_type, scope |-> scope, value |-> ""]

IRDataType(name, n) ==
    [name |-> name, base_type |-> "",
     members |-> [k \in 1..n |-> [name |-> Numbered("M", k), data_type |-> "DINT"]]]

IRProgram(name, n) ==
    [name |-> name, tags |-> <<>>,
     routines |-> [k \in 1..n |-> [name |-> Numbered("R", k), routine_type |-> "ST",
                                   content |-> ""]],
     main_routine |-> ""]

TagPool ==
    {IRTag("a", "DINT", "Controller"), IRTag("a", "BOOL", "Controller"),
     IRTag("a", "DINT", "Program"), IRTag("b", "DINT", "Controller")}
DataTypePool == {IRDataType("U", 1), IRDataType("U", 2), IRDataType("V", 1)}
ProgramPool == {IRProgram("M", 1), IRProgram("M", 2)}

IRProject(tags, data_types, programs) ==
    [controller |-> [name |-> "Plant", tags |-> tags, data_types |-> data_types,
                     function_blocks |-> <<>>],
     programs |-> programs]

IRProjects ==
    {IRProject(x[1], x[2], x[3]) :
        x \in {y \in SeqsUpTo(TagPool, MaxComponents)
                     \X SeqsUpTo(DataTypePool, MaxComponents)
                     \X SeqsUpTo(ProgramPool, MaxComponents) :
                  Len(y[1]) + Len(y[2]) + Len(y[3]) <= MaxComponents}}

\* calculate_fidelity_score on two given projects.
InitFidelity ==
    /\ original \in IRProjects
    /\ converted \in IRProjects
    /\ document = <<>> /\ l5x_xml = <<>> /\ score = <<>>
    /\ ir_pc = "score"
    /\ conversion_metadata = ConversionMetadata
    /\ rung = <<>> /\ formatted = <<>> /\ instr_list = <<>> /\ st = <<>>
    /\ ld_pc = "idle"
    /\ sheets = <<>> /\ input_refs = <<>> /\ output_refs = <<>>
    /\ function_blocks = <<>> /\ wires = <<>> /\ execution_order = <<>>
    /\ st_code = <<>> /\ fbd_pc = "idle"
    /\ identifier = <<>> /\ results = <<>>
    /\ st_source = <<>> /\ variables = <<>> /\ user_types = {} /\ program_logic = <<>>
    /\ l5x_root = <<>> /\ lift_pc = "idle"
    /\ validated_project = <<>> /\ validation = <<>> /\ val_pc = "idle"
    /\ argv = <<>> /\ input_file = <<>> /\ output_file = <<>> /\ exit_code = 0
    /\ echoed = <<>> /\ cli_pc = "idle"
    /\ state = <<>> /\ add_calls = <<>> /\ parsed_files = <<>> /\ consolidated = <<>> /\ called = <<>>

(* The documents of the tag extraction: controller tags with names that    *)
(* sanitising changes, decorated data types, values of the hex-like shape  *)
(* and tags the accessor raises on, with or without a user type and a      *)
(* program.                                                                *)
MaxExtractTags == 3

SourceTag(name, tag_type, data_type, value) ==
    Element("Tag",
            IF value = "" THEN [Name |-> name, TagType |-> tag_type, DataType |-> data_type]
            ELSE [Name |-> name, TagType |-> tag_type, DataType |-> data_type, Value |-> value],
            <<>>, "")

SourceTags ==
    {SourceTag("Motor", "Base", "STRING<82>", ""),
     SourceTag("ON", "Base", "DINT[10]", "5"),
     SourceTag("Count", "Base", "DINT", "'$00$00$00$1E'"),
     SourceTag("Bad", "Unsupported", "DINT", "7"),
     SourceTag("Flag", "Base", "STRING", "1")}

\* The characters of the tag names of the documents.
Chars(name) ==
    CASE name = "Motor" -> <<"M", "o", "t", "o", "r">>
      [] name = "ON" -> <<"O", "N">>
      [] name = "Count" -> <<"C", "o", "u", "n", "t">>
      [] name = "Bad" -> <<"B", "a", "d">>
      [] name = "Flag" -> <<"F", "l", "a", "g">>

ExtractDocument(tag_elems, defined_types, programs) ==
    Element("RSLogix5000Content", [SchemaRevision |-> "1.0", TargetType |-> "Controller"],
            <<Element("Controller", [Name |-> "Plant"],
                      <<Element("DataTypes", EmptyMap,
                                [k \in 1..Len(defined_types) |-> DataTypeElement(defined_types[k])], ""),
                        Element("Tags", EmptyMap, tag_elems, ""),
                        Element("Programs", EmptyMap,
                                [k \in 1..Len(programs) |-> ProgramElement(programs[k])], "")>>,
                      "")>>,
            "")

ExtractDocuments ==
    {ExtractDocument(x[1], x[2], x[3]) :
        x \in {y \in SeqsUpTo(SourceTags, MaxExtractTags) :
                    \A i, j \in 1..Len(y) : i # j => y[i] # y[j]}
               \X {<<>>, <<"Rec">>}
               \X {<<>>, <<<<"ST">>>>, <<<<"FBD">>>>}}

InitExtract ==
    /\ document \in ExtractDocuments
    /\ original = <<>> /\ l5x_xml = <<>> /\ converted = <<>> /\ score = <<>>
    /\ ir_pc = "extract"
    /\ conversion_metadata = ConversionMetadata
    /\ rung = <<>> /\ formatted = <<>> /\ instr_list = <<>> /\ st = <<>>
    /\ ld_pc = "idle"
    /\ sheets = <<>> /\ input_refs = <<>> /\ output_refs = <<>>
    /\ function_blocks = <<>> /\ wires = <<>> /\ execution_order = <<>>
    /\ st_code = <<>> /\ fbd_pc = "idle"
    /\ identifier = <<>> /\ results = <<>>
    /\ st_source = <<>> /\ variables = <<>> /\ user_types = {} /\ program_logic = <<>>
    /\ l5x_root = <<>> /\ lift_pc = "idle"
    /\ validated_project = <<>> /\ validation = <<>> /\ val_pc = "idle"
    /\ argv = <<>> /\ input_file = <<>> /\ output_file = <<>> /\ exit_code = 0
    /\ echoed = <<>> /\ cli_pc = "idle"
    /\ state = <<>> /\ add_calls = <<>> /\ parsed_files = <<>> /\ consolidated = <<>> /\ called = <<>>

\* The round trip: extract, serialize, extract again, score.
InitRoundTrip ==
    /\ document \in Documents
    /\ original = <<>> /\ l5x_xml = <<>> /\ converted = <<>> /\ score = <<>>
    /\ ir_pc = "extract"
    /\ conversion_metadata = ConversionMetadata
    /\ rung = <<>> /\ formatted = <<>> /\ instr_list = <<>> /\ st = <<>>
    /\ ld_pc = "idle"
    /\ sheets = <<>> /\ input_refs = <<>> /\ output_refs = <<>>
    /\ function_blocks = <<>> /\ wires = <<>> /\ execution_order = <<>>
    /\ st_code = <<>> /\ fbd_pc = "idle"
    /\ identifier = <<>> /\ results = <<>>
    /\ st_source = <<>> /\ variables = <<>> /\ user_types = {} /\ program_logic = <<>>
    /\ l5x_root = <<>> /\ lift_pc = "idle"
    /\ validated_project = <<>> /\ validation = <<>> /\ val_pc = "idle"
    /\ argv = <<>> /\ input_file = <<>> /\ output_file = <<>> /\ exit_code = 0
    /\ echoed = <<>> /\ cli_pc = "idle"
    /\ state = <<>> /\ add_calls = <<>> /\ parsed_files = <<>> /\ consolidated = <<>> /\ called = <<>>

extract_original(rank) ==
    /\ ir_pc = "extract"
    /\ original' = l5x_to_ir(document, rank)
    /\ conversion_metadata' = update_metadata(conversion_metadata, l5x_to_ir(document, rank))
    /\ ir_pc' = "serialize"
    /\ UNCHANGED <<document, l5x_xml, converted, score>>

serialize ==
    /\ ir_pc = "serialize"
    /\ l5x_xml' = ir_to_l5x(original)
    /\ ir_pc' = "reextract"
    /\ UNCHANGED <<document, original, converted, score, conversion_metadata>>

extract_converted(rank) ==
    /\ ir_pc = "reextract"
    /\ converted' = l5x_to_ir(l5x_xml, rank)
    /\ conversion_metadata' = update_metadata(conversion_metadata, l5x_to_ir(l5x_xml, rank))
    /\ ir_pc' = "score"
    /\ UNCHANGED <<document, original, l5x_xml, score>>

fidelity ==
    /\ ir_pc = "score"
    /\ score' = calculate_fidelity_score(original, converted)
    /\ ir_pc' = "done"
    /\ UNCHANGED <<document, original, l5x_xml, converted, conversion_metadata>>

NextFidelity == fidelity /\ UNCHANGED <<ldVars, fbdVars, sanVars, liftVars, valVars, cliVars, convVars>>

NextRoundTrip ==
    \/ \E rank \in Ranks : extract_original(rank) /\ UNCHANGED <<ldVars, fbdVars, sanVars, liftVars, valVars, cliVars, convVars>>
    \/ serialize /\ UNCHANGED <<ldVars, fbdVars, sanVars, liftVars, valVars, cliVars, convVars>>
    \/ \E rank \in Ranks : extract_converted(rank) /\ UNCHANGED <<ldVars, fbdVars, sanVars, liftVars, valVars, cliVars, convVars>>
    \/ fidelity /\ UNCHANGED <<ldVars, fbdVars, sanVars, liftVars, valVars, cliVars, convVars>>

NextExtract ==
    \E rank \in Ranks : extract_original(rank) /\ UNCHANGED <<ldVars, fbdVars, sanVars, liftVars, valVars, cliVars, convVars>>

(***************************************************************************)
(* Identifier sanitising (utils.py).  An identifier is the sequence of its *)
(* characters.                                                             *)
(***************************************************************************)
LowerCase ==
    <<"a", "b", "c", "d", "e", "f", "g", "h", "i", "j", "k", "l", "m",
      "n", "o", "p", "q", "r", "s", "t", "u", "v", "w", "x", "y", "z">>

UpperCase ==
    <<"A", "B", "C", "D", "E", "F", "G", "H", "I", "J", "K", "L", "M",
      "N", "O", "P", "Q", "R", "S", "T", "U", "V", "W", "X", "Y", "Z">>

Digits == {"0", "1", "2", "3", "4", "5", "6", "7", "8", "9"}

\* [a-zA-Z0-9_]
WordChars ==
    {LowerCase[i] : i \in 1..Len(LowerCase)} \cup {UpperCase[i] : i \in 1..Len(UpperCase)}
    \cup Digits \cup {"_"}

\* str.upper() on the characters above: a lower-case letter becomes its
\* capital, every other character is kept.
upper_chars(s) ==
    [i \in 1..Len(s) |->
        IF \E k \in 1..Len(LowerCase) : LowerCase[k] = s[i]
        THEN UpperCase[CHOOSE k \in 1..Len(LowerCase) : LowerCase[k] = s[i]]
        ELSE s[i]]

RESERVED_WORDS ==
    <<"O", "N">> :> <<"O", "N", "1">>
    @@ <<"t", "y", "p", "e">> :> <<"T", "Y", "P", "E", "1">>
    @@ <<"E", "N">> :> <<"E", "N", "1">>
    @@ <<"S", "C", "A", "L", "E">> :> <<"s", "c", "l", "1">>
    @@ <<"a", "l", "m">> :> <<"a", "l", "a", "r", "m", "1">>
    @@ <<"A", "l", "a", "r", "m">> :> <<"a", "l", "e", "r", "t">>
    @@ <<"A", "L", "A", "R", "M">> :> <<"a", "l", "e", "r", "t">>
    @@ <<"T", "O", "N">> :> <<"T", "O", "N", "1">>
    @@ <<"R", "_", "T", "R", "I", "G">> :> <<"R", "_", "T", "R", "I", "G", "1">>
    @@ <<"T", "O">> :> <<"T", "O", "1">>
    @@ <<"S", "H", "U", "T", "O", "D", "W", "N", "1">> :> <<"S", "H", "U", "T", "D", "O", "W", "N", "1">>
    @@ <<"S", "H", "U", "T", "O", "D", "W", "N", "2">> :> <<"S", "H", "U", "T", "D", "O", "W", "N", "2">>
    @@ <<"S", "H", "U", "T", "O", "D", "W", "N", "3">> :> <<"S", "H", "U", "T", "D", "O", "W", "N", "3">>
    @@ <<"S", "H", "U", "T", "O", "D", "W", "N", "4">> :> <<"S", "H", "U", "T", "D", "O", "W", "N", "4">>
    @@ <<"S", "H", "U", "T", "O", "D", "W", "N", "5">> :> <<"S", "H", "U", "T", "D", "O", "W", "N", "5">>
    @@ <<"S", "H", "U", "T", "D", "O", "W", "N">> :> <<"S", "h", "u", "t", "d", "o", "w", "n">>
    @@ <<"s", "t", "a", "t", "u", "s">> :> <<"S", "t", "a", "t", "u", "s">>
    @@ <<"S", "T", "A", "T", "U", "S">> :> <<"S", "t", "a", "t", "u", "s">>
    @@ <<"H", "T", "Y">> :> <<"H", "t", "y">>
    @@ <<"A", "V", "L">> :> <<"A", "v", "l">>

\* clean_identifier without the var_ prefix.
CleanWithoutPrefix(ident) ==
    [i \in 1..Len(ident) |-> IF ident[i] \in WordChars THEN ident[i] ELSE "_"]

clean_identifier(ident) ==
    LET cleaned == [i \in 1..Len(ident) |-> IF ident[i] \in WordChars THEN ident[i] ELSE "_"]
    IN  IF cleaned # <<>> /\ cleaned[1] \in Digits
        THEN <<"v", "a", "r", "_">> \o cleaned
        ELSE cleaned

sanitize_identifier(ident) ==
    IF upper_chars(ident) \in DOMAIN RESERVED_WORDS
    THEN RESERVED_WORDS[upper_chars(ident)]
    ELSE clean_identifier(ident)

(***************************************************************************)
(* The identifiers sanitised: every short string over a few characters,    *)
(* and every reserved word and replacement as written, in capitals, and    *)
(* with one character exchanged.                                           *)
(***************************************************************************)
MaxLen == 3
MaxCalls == 2

InputChars == {"T", "o", "N", "1", "_", "-"}

ShortIdentifiers == UNION {[1..n -> InputChars] : n \in 0..MaxLen}

ReservedSpellings ==
    DOMAIN RESERVED_WORDS \cup {RESERVED_WORDS[w] : w \in DOMAIN RESERVED_WORDS}

Variants(w) ==
    {w, upper_chars(w)} \cup {[w EXCEPT ![i] = c] : i \in 1..Len(w), c \in InputChars}

Identifiers == ShortIdentifiers \cup UNION {Variants(w) : w \in ReservedSpellings}

InitSanitize ==
    /\ identifier \in Identifiers
    /\ results = <<>>
    /\ rung = <<>> /\ formatted = <<>> /\ instr_list = <<>> /\ st = <<>>
    /\ ld_pc = "idle"
    /\ sheets = <<>> /\ input_refs = <<>> /\ output_refs = <<>>
    /\ function_blocks = <<>> /\ wires = <<>> /\ execution_order = <<>>
    /\ st_code = <<>> /\ fbd_pc = "idle"
    /\ document = <<>> /\ original = <<>> /\ l5x_xml = <<>> /\ converted = <<>>
    /\ score = <<>> /\ ir_pc = "idle" /\ conversion_metadata = <<>>
    /\ st_source = <<>> /\ variables = <<>> /\ user_types = {} /\ program_logic = <<>>
    /\ l5x_root = <<>> /\ lift_pc = "idle"
    /\ validated_project = <<>> /\ validation = <<>> /\ val_pc = "idle"
    /\ argv = <<>> /\ input_file = <<>> /\ output_file = <<>> /\ exit_code = 0
    /\ echoed = <<>> /\ cli_pc = "idle"
    /\ state = <<>> /\ add_calls = <<>> /\ parsed_files = <<>> /\ consolidated = <<>> /\ called = <<>>

\* One call: the first on the identifier, each later one on the last result.
sanitize ==
    /\ Len(results) < MaxCalls
    /\ results' = Append(results,
                         sanitize_identifier(IF results = <<>> THEN identifier
                                             ELSE results[Len(results)]))
    /\ UNCHANGED identifier

NextSanitize == sanitize /\ UNCHANGED <<ldVars, fbdVars, irVars, liftVars, valVars, cliVars, convVars>>

(***************************************************************************)
(* st2l5x.py.  An ST source is the sequence of its lines and a line is a   *)
(* run of tokens: words, numbers, " ", ":", ":=", ";", "[", "]", "(", ")", *)
(* ",", ">", "//", "(*", "*)" and ranges such as "1..10".                  *)
(***************************************************************************)
Spaces == {" "}

Ranges == {"1..10", "0..3"}

Punctuation == {":", ":=", ";", "[", "]", "(", ")", ",", ">", "//", "(*", "*)", "\n"}

\* \w+ : a token that is neither white space, punctuation nor a range
IsWord(tok) == tok \notin Spaces \cup Punctuation \cup Ranges \cup {""}

\* [\w\[\]\.]+
IsTypeToken(tok) == IsWord(tok) \/ tok \in {"[", "]"} \cup Ranges

\* re.IGNORECASE on the keywords of the model
IgnoreCase(tok) ==
    CASE tok = "var" -> "VAR"
      [] tok = "end_var" -> "END_VAR"
      [] tok = "array" -> "ARRAY"
      [] tok = "of" -> "OF"
      [] OTHER -> tok

At(line, p) == IF p >= 1 /\ p <= Len(line) THEN line[p] ELSE ""

\* the first position from p on that holds no white space
RECURSIVE SkipWs(_, _)
SkipWs(line, p) == IF At(line, p) \in Spaces THEN SkipWs(line, p + 1) ELSE p

\* str.strip() on a line
RECURSIVE StripLine(_)
StripLine(line) ==
    IF line = <<>> THEN line
    ELSE IF Head(line) \in Spaces THEN StripLine(Tail(line))
    ELSE IF line[Len(line)] \in Spaces THEN StripLine(SubSeq(line, 1, Len(line) - 1))
    ELSE line

\* the lines joined by "\n": the text st_code
RECURSIVE JoinLines(_)
JoinLines(lines) ==
    IF lines = <<>> THEN <<>>
    ELSE IF Len(lines) = 1 THEN lines[1]
    ELSE lines[1] \o <<"\n">> \o JoinLines(Tail(lines))

\* the first position from p on where pred holds, Len + 1 when there is none
FirstAt(line, p, pred(_)) ==
    LET hits == {k \in p..Len(line) : pred(line[k])}
    IN  IF hits = {} THEN Len(line) + 1 ELSE CHOOSE k \in hits : \A m \in hits : k <= m

\* re.search(r'VAR\s*(.*?)END_VAR', st_code, re.DOTALL | re.IGNORECASE): the
\* text between the first token that holds the letters VAR and the first
\* END_VAR after it; <<FALSE>> when nothing matches.
VarSection(text) ==
    LET i == FirstAt(text, 1, LAMBDA t : IgnoreCase(t) \in {"VAR", "END_VAR"})
        j == FirstAt(text, i + 1, LAMBDA t : IgnoreCase(t) = "END_VAR")
    IN  IF j > Len(text) THEN <<FALSE>> ELSE <<TRUE, SubSeq(text, i + 1, j - 1)>>

\* \s*(?::=\s*([^;]+))?; at position p: whether it matches and group 4 / 3
\* after .strip(), <<>> standing for None.
InitialValue(line, p) ==
    LET q == SkipWs(line, p)
        semi == FirstAt(line, q + 1, LAMBDA t : t = ";")
    IN  IF At(line, q) = ";" THEN [ok |-> TRUE, initial_value |-> <<>>]
        ELSE IF At(line, q) = ":=" /\ semi <= Len(line) /\ semi > q + 1
             THEN [ok |-> TRUE,
                   initial_value |-> <<Concat(StripLine(SubSeq(line, q + 1, semi - 1)))>>]
        ELSE [ok |-> FALSE, initial_value |-> <<>>]

\* re.match(r'(\w+)\s*:\s*ARRAY\s*\[(.*?)\]\s*OF\s*(\w+)\s*(?::=\s*([^;]+))?;', line,
\*          re.IGNORECASE): the variable info, or <<>> when the line does not match.
array_match(line) ==
    LET colon == SkipWs(line, 2)
        arr == SkipWs(line, colon + 1)
        open == SkipWs(line, arr + 1)
        tail(close) ==
            LET of == SkipWs(line, close + 1)
                base == SkipWs(line, of + 1)
            IN  IF IgnoreCase(At(line, of)) = "OF" /\ IsWord(At(line, base))
                THEN [ok |-> InitialValue(line, base + 1).ok, base_type |-> line[base],
                      initial_value |-> InitialValue(line, base + 1).initial_value]
                ELSE [ok |-> FALSE, base_type |-> "", initial_value |-> <<>>]
        closes == {c \in (open + 1)..Len(line) : line[c] = "]" /\ tail(c).ok}
    IN  IF /\ IsWord(At(line, 1)) /\ At(line, colon) = ":"
           /\ IgnoreCase(At(line, arr)) = "ARRAY" /\ At(line, open) = "["
           /\ closes # {}
        THEN LET close == CHOOSE c \in closes : \A d \in closes : c <= d
             IN  <<[name |-> line[1], type |-> tail(close).base_type,
                    array_range |-> Concat(SubSeq(line, open + 1, close - 1)),
                    scope |-> "Local", initial_value |-> tail(close).initial_value,
                    is_array |-> TRUE]>>
        ELSE <<>>

\* re.match(r'(\w+)\s*:\s*([\w\[\]\.]+)\s*(?::=\s*([^;]+))?;', line)
var_match(line) ==
    LET colon == SkipWs(line, 2)
        first == SkipWs(line, colon + 1)
        after == FirstAt(line, first, LAMBDA t : ~IsTypeToken(t))
    IN  IF /\ IsWord(At(line, 1)) /\ At(line, colon) = ":"
           /\ after > first /\ InitialValue(line, after).ok
        THEN <<[name |-> line[1], type |-> Concat(SubSeq(line, first, after - 1)),
                scope |-> "Local",
                initial_value |-> InitialValue(line, after).initial_value,
                is_array |-> FALSE]>>
        ELSE <<>>

basic_types ==
    {"BOOL", "SINT", "INT", "DINT", "LINT", "USINT", "UINT", "UDINT", "ULINT",
     "REAL", "LREAL", "TIME", "DATE", "TOD", "DT", "STRING"}

\* One pass of the loop over var_lines: t is [variables, user_types].
declare(t, raw) ==
    LET line == StripLine(raw)
        found == IF array_match(line) # <<>> THEN array_match(line) ELSE var_match(line)
    IN  IF line = <<>> \/ line[1] = "//" \/ line[1] = "(*" \/ found = <<>> THEN t
        ELSE [variables |-> DictSet(t.variables, found[1].name, found[1]),
              user_types |-> IF found[1].type \in basic_types THEN t.user_types
                             ELSE t.user_types \cup {found[1].type}]

RECURSIVE DeclareAll(_, _)
DeclareAll(t, var_lines) ==
    IF var_lines = <<>> THEN t ELSE DeclareAll(declare(t, Head(var_lines)), Tail(var_lines))

\* self.variables and self.user_types after _parse_variable_declarations
parse_variable_declarations(source) ==
    LET section == VarSection(JoinLines(source))
        empty == [variables |-> [ids |-> <<>>, info |-> EmptyMap], user_types |-> {}]
    IN  IF section[1] THEN DeclareAll(empty, SplitTok(section[2], "\n")) ELSE empty

\* re.sub(r'//.*$', '', line)
CutLineComment(line) ==
    SubSeq(line, 1, FirstAt(line, 1, LAMBDA t : t = "//") - 1)

\* re.sub(r'\(\*.*?\*\)', '', line): every "(*" with a "*)" after it on the
\* line is removed with the text between them.
RECURSIVE CutBracketComments(_)
CutBracketComments(line) ==
    LET open == FirstAt(line, 1, LAMBDA t : t = "(*")
        close == FirstAt(line, open + 1, LAMBDA t : t = "*)")
    IN  IF close > Len(line) THEN line
        ELSE SubSeq(line, 1, open - 1)
             \o CutBracketComments(SubSeq(line, close + 1, Len(line)))

\* the first loop of _parse_program_logic
CleanLines(source) ==
    NonEmpty([k \in 1..Len(source) |->
                 StripLine(CutBracketComments(CutLineComment(source[k])))])

\* the second loop: the lines outside VAR ... END_VAR; every branch of the
\* classification appends the line.
RECURSIVE KeepLogic(_, _)
KeepLogic(lines, in_var_section) ==
    IF lines = <<>> THEN <<>>
    ELSE IF IgnoreCase(lines[1][1]) = "VAR" THEN KeepLogic(Tail(lines), TRUE)
    ELSE IF IgnoreCase(lines[1][1]) = "END_VAR" THEN KeepLogic(Tail(lines), FALSE)
    ELSE (IF in_var_section THEN <<>> ELSE <<lines[1]>>) \o KeepLogic(Tail(lines), in_var_section)

parse_program_logic(source) == KeepLogic(CleanLines(source), FALSE)

\* str.startswith and str.isupper on the variable names of the model
startswith(name, prefix) ==
    CASE prefix = "HMI_" -> name \in {"HMI_Status"}
      [] prefix = "Global_" -> name \in {"Global_Mode"}
      [] OTHER -> FALSE

isupper(name) == name \in {"RUN"}

IsControllerTag(var_name) ==
    startswith(var_name, "HMI_") \/ startswith(var_name, "Global_") \/ isupper(var_name)

\* _split_variables: the names of each part, in the order of self.variables
split_variables(vs) ==
    [controller_tags |-> SelectSeq(vs.ids, IsControllerTag),
     program_tags |-> SelectSeq(vs.ids, LAMBDA n : ~IsControllerTag(n))]

\* the Tag element written for a variable in either Tags section
TagOf(var_info, scope) ==
    Element("Tag",
            [Name |-> var_info.name, TagType |-> "Base", DataType |-> var_info.type,
             Scope |-> scope]
            @@ (IF var_info.is_array THEN [Dimension |-> var_info.array_range]
                ELSE EmptyMap),
            <<Element("Description", EmptyMap, <<>>, "Generated from ST conversion"),
              Element("Data", [Format |-> "Decorated", Use |-> "Context"],
                      <<Element("Value", [DataType |-> var_info.type, Radix |-> "Decimal"],
                                <<>>, "0")>>, "")>>,
            "")

TagsOf(vs, names, scope) ==
    Element("Tags", EmptyMap, [k \in 1..Len(names) |-> TagOf(vs.info[names[k]], scope)], "")

\* the list basic_types of _add_basic_data_types
BasicDataTypes ==
    <<"BOOL", "SINT", "INT", "DINT", "LINT", "USINT", "UINT", "UDINT", "ULINT",
      "REAL", "LREAL", "TIME", "DATE", "TOD", "DT", "STRING">>

DataTypeOf(type_name, base_type) ==
    Element("DataType", [Name |-> type_name, Family |-> "NoFamily", Class |-> "User"],
            <<Element("Base", EmptyMap, <<>>, base_type)>>, "")

\* type_order: the order in which the set self.user_types is iterated
add_basic_data_types(type_order) ==
    Element("DataTypes", EmptyMap,
            [k \in 1..Len(BasicDataTypes) |-> DataTypeOf(BasicDataTypes[k], BasicDataTypes[k])]
            \o [k \in 1..Len(type_order) |-> DataTypeOf(type_order[k], "DINT")],
            "")

format_st_code(logic) ==
    IF logic = <<>> THEN "// No program logic found"
    ELSE JoinStr([k \in 1..Len(logic) |->
                     Concat(IF logic[k][Len(logic[k])] = ";" THEN logic[k]
                            ELSE Append(logic[k], ";"))],
                 "\n")

create_st_routine(routine_name, logic) ==
    Element("Routine",
            [Name |-> routine_name, Type |-> "ST", TestEdits |-> "false",
             UseAsFolder |-> "false"],
            <<Element("STContent", [Use |-> "Context"],
                      <<Element("Text", EmptyMap, <<>>, format_st_code(logic))>>, "")>>,
            "")

create_main_program(vs, program_tags, logic) ==
    Element("Program",
            [Name |-> "MainProgram", TestEdits |-> "false",
             MainRoutineName |-> "MainRoutine", TaskName |-> "MainTask",
             ScheduledPrograms |-> "", UseAsFolder |-> "false", ProgramNumber |-> "0"],
            <<TagsOf(vs, program_tags, "Program"),
              Element("Routines", EmptyMap, <<create_st_routine("MainRoutine", logic)>>, "")>>,
            "")

create_main_task ==
    Element("Task",
            [Name |-> "MainTask", Type |-> "CONTINUOUS", Priority |-> "10",
             Watchdog |-> "500", DisableUpdateOutputs |-> "false", InhibitTask |-> "false"],
            <<Element("ScheduledPrograms", EmptyMap,
                      <<Element("ScheduledProgram", [Name |-> "MainProgram"], <<>>, "")>>,
                      "")>>,
            "")

generate_l5x_xml(vs, type_order, logic) ==
    Element("RSLogix5000Content",
            [SchemaRevision |-> "1.0", SoftwareRevision |-> "20.01",
             TargetName |-> "Generated_Controller", TargetType |-> "Controller",
             ContainsContext |-> "true"],
            <<Element("Controller",
                      [Name |-> "Generated_Controller", ProcessorType |-> "1756-L71",
                       MajorRev |-> "20", MinorRev |-> "11", TimeSlice |-> "20",
                       ShareUnusedTimeSlice |-> "1",
                       ProjectCreationDate |-> "2024-01-01T00:00:00",
                       LastModifiedDate |-> "2024-01-01T00:00:00",
                       SFCExecutionControl |-> "CurrentActive",
                       SFCRestartPosition |-> "MostRecent", SFCLastScan |-> "DontScan",
                       ProjectSN |-> "16#0000_0000"],
                      <<add_basic_data_types(type_order),
                        TagsOf(vs, split_variables(vs).controller_tags, "Controller"),
                        Element("Programs", EmptyMap,
                                <<create_main_program(vs, split_variables(vs).program_tags,
                                                      logic)>>, ""),
                        Element("Tasks", EmptyMap, <<create_main_task>>, "")>>,
                      "")>>,
            "")

(***************************************************************************)
(* The ST sources lifted: VAR, some lines of the block, END_VAR and some   *)
(* lines of the body.  Either the block or the body varies.                *)
(***************************************************************************)
MaxDecls == 3
MaxStmts == 3

VarBlockLines ==
    {<<"HMI_Status", " ", ":", " ", "INT", ";">>,
     <<"Global_Mode", " ", ":", " ", "DINT", " ", ":=", " ", "0", ";">>,
     <<" ", "Local_Flag", " ", ":", " ", "BOOL", ";", " ", "//", " ", "flag">>,
     <<"RUN", ":", "BYTE", ";">>,
     <<"Buf", " ", ":", " ", "ARRAY", " ", "[", "1..10", "]", " ", "OF", " ", "INT",
       " ", ":=", " ", "[", "1", ",", "2", "]", ";">>,
     <<"Pts", ":", "array", "[", "0..3", "]", "of", "Point", ";">>,
     <<"Pump1", " ", ":", " ", "Motor", ";">>,
     <<"(*", " ", "old", " ", "*)", " ", "Speed", " ", ":", " ", "ARRAY", " ", "[", "0..3", "]",
       " ", "OF", " ", "REAL", " ", ":=", " ", "0", ";">>,
     <<"//", " ", "Ghost", " ", ":", " ", "INT", ";">>,
     <<"(*", " ", "unused">>,
     <<"Ghost", " ", ":", " ", "INT", ";">>,
     <<"until", " ", "tested", " ", "*)">>,
     <<>>}

BodyLines ==
    {<<"Local_Flag", " ", ":=", " ", "TRUE", ";">>,
     <<"IF", " ", "RUN", " ", "THEN">>,
     <<"END_IF", ";">>,
     <<"Timer1", "(", "IN", " ", ":=", " ", "RUN", ")", ";">>,
     <<" ", "Buf", "[", "1", "]", " ", ":=", " ", "5", ";", " ", "//", " ", "set">>,
     <<"(*", " ", "c", " ", "*)", " ", "ELSE">>,
     <<"//", " ", "note">>,
     <<"(*", " ", "disabled">>,
     <<"Speed", " ", ":=", " ", "0", ";">>,
     <<"for", " ", "now", " ", "*)">>,
     <<>>}

FixedBlock == <<<<"Local_Flag", " ", ":", " ", "BOOL", ";">>>>

FixedBody == <<<<"Local_Flag", " ", ":=", " ", "TRUE", ";">>>>

Source(block, body) == <<<<"VAR">>>> \o block \o <<<<"END_VAR">>>> \o body

Sources ==
    {Source(block, FixedBody) : block \in SeqsUpTo(VarBlockLines, MaxDecls)}
    \cup {Source(FixedBlock, body) : body \in SeqsUpTo(BodyLines, MaxStmts)}

\* the orders in which a set can be iterated
Orders(S) ==
    {o \in [1..Cardinality(S) -> S] : \A i, j \in 1..Cardinality(S) : o[i] = o[j] => i = j}

InitLift ==
    /\ st_source \in Sources
    /\ variables = <<>> /\ user_types = {} /\ program_logic = <<>>
    /\ l5x_root = <<>> /\ lift_pc = "start"
    /\ rung = <<>> /\ formatted = <<>> /\ instr_list = <<>> /\ st = <<>>
    /\ ld_pc = "idle"
    /\ sheets = <<>> /\ input_refs = <<>> /\ output_refs = <<>>
    /\ function_blocks = <<>> /\ wires = <<>> /\ execution_order = <<>>
    /\ st_code = <<>> /\ fbd_pc = "idle"
    /\ document = <<>> /\ original = <<>> /\ l5x_xml = <<>> /\ converted = <<>>
    /\ score = <<>> /\ ir_pc = "idle" /\ conversion_metadata = <<>>
    /\ identifier = <<>> /\ results = <<>>
    /\ validated_project = <<>> /\ validation = <<>> /\ val_pc = "idle"
    /\ argv = <<>> /\ input_file = <<>> /\ output_file = <<>> /\ exit_code = 0
    /\ echoed = <<>> /\ cli_pc = "idle"
    /\ state = <<>> /\ add_calls = <<>> /\ parsed_files = <<>> /\ consolidated = <<>> /\ called = <<>>

\* parse_st_code(st_code): the declarations, the logic, the generated tree
parse_st_code(type_order) ==
    /\ lift_pc = "start"
    /\ \E t \in {parse_variable_declarations(st_source)} :
           /\ type_order \in Orders(t.user_types)
           /\ variables' = t.variables
           /\ user_types' = t.user_types
           /\ program_logic' = parse_program_logic(st_source)
           /\ l5x_root' = generate_l5x_xml(t.variables, type_order,
                                           parse_program_logic(st_source))
    /\ lift_pc' = "done"
    /\ UNCHANGED st_source

TypeOrders == UNION {Orders(S) : S \in SUBSET {"BYTE", "Point", "Motor"}}

NextLift ==
    \E type_order \in TypeOrders :
        parse_st_code(type_order) /\ UNCHANGED <<ldVars, fbdVars, irVars, sanVars, valVars, cliVars, convVars>>

(***************************************************************************)
(* The IR validator (cli.py).  A call either returns its list of errors or *)
(* ends in an exception.                                                   *)
(***************************************************************************)
None == [none |-> TRUE]
IsNone(value) == DOMAIN value = {"none"}

validate_ir(project) ==
    LET unnamed ==
            IF IsNone(project.controller) \/ project.controller.name = ""
            THEN <<"Controller missing or unnamed.">> ELSE <<>>
        no_programs ==
            IF project.programs = <<>> THEN <<"No programs found.">> ELSE <<>>
        no_routines ==
            Flatten([k \in 1..Len(project.programs) |->
                        IF project.programs[k].routines = <<>>
                        THEN <<"Program '" \o project.programs[k].name \o "' has no routines.">>
                        ELSE <<>>])
    IN  IF IsNone(project.controller)
        THEN [raised |-> "AttributeError", errors |-> <<>>]
        ELSE [raised |-> "",
              errors |-> unnamed
                         \o (IF project.controller.tags = <<>>
                             THEN <<"No controller tags found.">> ELSE <<>>)
                         \o no_programs \o no_routines]

\* The projects validated: with or without a controller, named or not, with
\* or without tags, and up to MaxPrograms programs with or without routines.
MaxPrograms == 2

Controllers ==
    {None} \cup
    {[name |-> n, tags |-> t, data_types |-> <<>>, function_blocks |-> <<>>] :
        n \in {"", "Plant"}, t \in {<<>>, <<IRTag("a", "DINT", "Controller")>>}}

ValidatedProjects ==
    {[controller |-> c, programs |-> ps] :
        c \in Controllers,
        ps \in SeqsUpTo({IRProgram(n, k) : n \in {"Main", "Aux"}, k \in 0..1}, MaxPrograms)}

InitValidate ==
    /\ validated_project \in ValidatedProjects
    /\ validation = <<>> /\ val_pc = "start"
    /\ rung = <<>> /\ formatted = <<>> /\ instr_list = <<>> /\ st = <<>>
    /\ ld_pc = "idle"
    /\ sheets = <<>> /\ input_refs = <<>> /\ output_refs = <<>>
    /\ function_blocks = <<>> /\ wires = <<>> /\ execution_order = <<>>
    /\ st_code = <<>> /\ fbd_pc = "idle"
    /\ document = <<>> /\ original = <<>> /\ l5x_xml = <<>> /\ converted = <<>>
    /\ score = <<>> /\ ir_pc = "idle" /\ conversion_metadata = <<>>
    /\ identifier = <<>> /\ results = <<>>
    /\ st_source = <<>> /\ variables = <<>> /\ user_types = {} /\ program_logic = <<>>
    /\ l5x_root = <<>> /\ lift_pc = "idle"
    /\ argv = <<>> /\ input_file = <<>> /\ output_file = <<>> /\ exit_code = 0
    /\ echoed = <<>> /\ cli_pc = "idle"
    /\ state = <<>> /\ add_calls = <<>> /\ parsed_files = <<>> /\ consolidated = <<>> /\ called = <<>>

validate ==
    /\ val_pc = "start"
    /\ validation' = validate_ir(validated_project)
    /\ val_pc' = "done"
    /\ UNCHANGED validated_project

NextValidate == validate /\ UNCHANGED <<ldVars, fbdVars, irVars, sanVars, liftVars, cliVars, convVars>>

(***************************************************************************)
(* The command line (cli.py).  A run of a command is one step: it reads    *)
(* the input file, converts, validates, prints, writes or not, and exits.  *)
(* A file is Absent or holds what was written to it.                       *)
(***************************************************************************)
Absent == [absent |-> TRUE]

\* 'VAR' in line, 'END_VAR' in line, 'PROGRAM' in line
Contains(line, word) ==
    \E k \in 1..Len(line) :
        CASE word = "VAR" -> line[k] \in {"VAR", "END_VAR"}
          [] word = "END_VAR" -> line[k] = "END_VAR"
          [] word = "PROGRAM" -> line[k] \in {"PROGRAM", "END_PROGRAM"}

\* _parse_st_code_sections: the lines of the VAR sections, and the lines of
\* the program.
RECURSIVE SplitSections(_, _, _)
SplitSections(lines, in_var_section, in_program_section) ==
    IF lines = <<>> THEN [variables |-> <<>>, program_logic |-> <<>>]
    ELSE LET line == Head(lines)
             to_variables(in_var, in_program) ==
                 LET rest == SplitSections(Tail(lines), in_var, in_program)
                 IN  [rest EXCEPT !.variables = <<line>> \o @]
             to_program(in_var, in_program) ==
                 LET rest == SplitSections(Tail(lines), in_var, in_program)
                 IN  [rest EXCEPT !.program_logic = <<line>> \o @]
         IN  IF Contains(line, "VAR") /\ ~Contains(line, "END_VAR")
                 THEN to_variables(TRUE, FALSE)
             ELSE IF Contains(line, "END_VAR")
                 THEN to_variables(FALSE, in_program_section)
             ELSE IF Contains(line, "PROGRAM")
                 THEN to_program(FALSE, TRUE)
             ELSE IF in_var_section
                 THEN to_variables(in_var_section, in_program_section)
             ELSE IF in_program_section
                     \/ (StripLine(line) # <<>> /\ line[1] \notin {"//", "(*"})
                 THEN to_program(in_var_section, in_program_section)
             ELSE SplitSections(Tail(lines), in_var_section, in_program_section)

parse_st_code_sections(source) == SplitSections(source, FALSE, FALSE)

\* str.split('\n') of the '\n'.join of the lines
SplitJoined(lines) == IF lines = <<>> THEN <<<<>>>> ELSE lines

\* variables + "\n\n" + program_logic, as lines
Recombined(source) ==
    SplitJoined(parse_st_code_sections(source).variables) \o <<<<>>>>
        \o SplitJoined(parse_st_code_sections(source).program_logic)

\* convert_st_to_l5x_string(st_code): the tree the returned string denotes
convert_st_to_l5x_string(source, type_order) ==
    generate_l5x_xml(parse_variable_declarations(source).variables, type_order,
                     parse_program_logic(source))

UnguardedWrite(l5x_text, rank, banner) ==
    [output_file |-> [declaration |-> FALSE, root |-> l5x_text], exit_code |-> 0,
     echoed |-> <<banner, "IR validation passed. Successfully converted">>]

\* What the --use-ir branch of st2l5x leaves behind for the text l5x_text,
\* printing with the given banner: [output_file, exit_code, echoed].
GuardedWrite(l5x_text, rank, banner) ==
    LET after(errors) ==
            IF errors.raised # ""
            THEN [output_file |-> Absent, exit_code |-> 1,
                  echoed |-> <<banner, "Error: " \o errors.raised>>]
            ELSE IF errors.errors # <<>>
            THEN [output_file |-> Absent, exit_code |-> 1,
                  echoed |-> <<banner, "[ERROR] IR validation failed:">>
                             \o [k \in 1..Len(errors.errors) |-> "  - " \o errors.errors[k]]]
            ELSE [output_file |-> [declaration |-> FALSE, root |-> l5x_text], exit_code |-> 0,
                  echoed |-> <<banner, "IR validation passed. Successfully converted">>]
    IN  CHOOSE run \in {after(errors) :
                           errors \in {validate_ir(ir_project) :
                                          ir_project \in {l5x_to_ir(l5x_text, rank)}}} : TRUE

\* convert_st_to_l5x_file: the XML declaration and the text
PlainWrite(l5x_text) ==
    [output_file |-> [declaration |-> TRUE, root |-> l5x_text], exit_code |-> 0,
     echoed |-> <<"Successfully converted">>]

Banner == "[INFO] IR/guardrail mode enabled: ST->IR->L5X with validation."

\* st2l5x(input_file, output_file, use_ir, verbose), the click command
st2l5x(type_order, rank) ==
    /\ cli_pc = "start" /\ argv.entry = "st2l5x"
    /\ type_order \in Orders(parse_variable_declarations(input_file).user_types)
    /\ \E l5x_string \in {convert_st_to_l5x_string(input_file, type_order)} :
           \E run \in {IF argv.use_ir THEN GuardedWrite(l5x_string, rank, Banner)
                       ELSE PlainWrite(l5x_string)} :
               /\ output_file' = run.output_file
               /\ exit_code' = run.exit_code
               /\ echoed' = run.echoed
    /\ cli_pc' = "exited"
    /\ UNCHANGED <<argv, input_file>>

\* main() called with the command st2l5x: the same steps on the recombined
\* sections; a SystemExit is caught, the usage is printed, the exit is 1.
main_st2l5x(type_order, rank) ==
    /\ cli_pc = "start" /\ argv.entry = "main"
    /\ \E st_text \in {IF argv.use_ir THEN Recombined(input_file) ELSE input_file} :
           /\ type_order \in Orders(parse_variable_declarations(st_text).user_types)
           /\ \E l5x_string \in {convert_st_to_l5x_string(st_text, type_order)} :
              \E run \in {IF argv.use_ir THEN GuardedWrite(l5x_string, rank, Banner)
                          ELSE PlainWrite(l5x_string)} :
                  /\ output_file' = run.output_file
                  /\ exit_code' = run.exit_code
                  /\ echoed' = IF run.exit_code = 0 THEN run.echoed
                               ELSE run.echoed
                                    \o <<"usage: [-h] --input INPUT --output OUTPUT">>
    /\ cli_pc' = "exited"
    /\ UNCHANGED <<argv, input_file>>

\* The ST files converted: a VAR block of up to MaxCliDecls lines and a body
\* of up to MaxCliStmts lines.
MaxCliDecls == 2
MaxCliStmts == 2

CliBlockLines ==
    {<<"HMI_Status", " ", ":", " ", "INT", ";">>,
     <<" ", "Local_Flag", " ", ":", " ", "BOOL", ";", " ", "//", " ", "flag">>,
     <<"RUN", ":", "BYTE", ";">>,
     <<"Pump1", " ", ":", " ", "Motor", ";">>}

CliBodyLines ==
    {<<"Local_Flag", " ", ":=", " ", "TRUE", ";">>,
     <<"(*", " ", "c", " ", "*)", " ", "ELSE">>,
     <<"//", " ", "note">>,
     <<"END_PROGRAM">>}

STFiles ==
    {Source(block, body) : block \in SeqsUpTo(CliBlockLines, MaxCliDecls),
                           body \in SeqsUpTo(CliBodyLines, MaxCliStmts)}

InitSt2l5x ==
    /\ argv \in [entry : {"st2l5x", "main"}, use_ir : BOOLEAN]
    /\ input_file \in STFiles
    /\ output_file = Absent /\ exit_code = 0 /\ echoed = <<>> /\ cli_pc = "start"
    /\ rung = <<>> /\ formatted = <<>> /\ instr_list = <<>> /\ st = <<>>
    /\ ld_pc = "idle"
    /\ sheets = <<>> /\ input_refs = <<>> /\ output_refs = <<>>
    /\ function_blocks = <<>> /\ wires = <<>> /\ execution_order = <<>>
    /\ st_code = <<>> /\ fbd_pc = "idle"
    /\ document = <<>> /\ original = <<>> /\ l5x_xml = <<>> /\ converted = <<>>
    /\ score = <<>> /\ ir_pc = "idle" /\ conversion_metadata = <<>>
    /\ identifier = <<>> /\ results = <<>>
    /\ st_source = <<>> /\ variables = <<>> /\ user_types = {} /\ program_logic = <<>>
    /\ l5x_root = <<>> /\ lift_pc = "idle"
    /\ validated_project = <<>> /\ validation = <<>> /\ val_pc = "idle"
    /\ state = <<>> /\ add_calls = <<>> /\ parsed_files = <<>> /\ consolidated = <<>> /\ called = <<>>

NextSt2l5x ==
    \/ \E type_order \in TypeOrders, rank \in Ranks :
           st2l5x(type_order, rank)
               /\ UNCHANGED <<ldVars, fbdVars, irVars, sanVars, liftVars, valVars, convVars>>
    \/ \E type_order \in TypeOrders, rank \in Ranks :
           main_st2l5x(type_order, rank)
               /\ UNCHANGED <<ldVars, fbdVars, irVars, sanVars, liftVars, valVars, convVars>>

(* l5x2st --use-ir.  The routines of the documents converted are ST       *)
(* routines.                                                               *)

\* L5X2STConverter._extract_tags: extract_tag_info on each tag; the loop
\* ends at the first tag that raises.
RECURSIVE ExtractTagInfos(_)
ExtractTagInfos(tag_elems) ==
    IF tag_elems = <<>> \/ AccessorRaises(Head(tag_elems)) THEN <<>>
    ELSE <<[name |-> Concat(sanitize_identifier(Chars(Get(Head(tag_elems), "Name", "")))),
            data_type |-> get_base_data_type(AccessorDataType(Head(tag_elems)))]>>
         \o ExtractTagInfos(Tail(tag_elems))

\* extract_program_logic_from_xml, as the lines of the returned text
extract_program_logic_from_xml(project) ==
    LET programs == Flatten([i \in 1..Len(findall(project, "Programs")) |->
                                findchildren(findall(project, "Programs")[i], "Program")])
        main_programs == SelectSeq(programs, LAMBDA e : Get(e, "Name", "") = "MainProgram")
        routines_of(program) ==
            IF findchildren(program, "Routines") = <<>> THEN <<>>
            ELSE findchildren(findchildren(program, "Routines")[1], "Routine")
        lines_of(routine) ==
            IF findchildren(routine, "STContent") = <<>> THEN <<>>
            ELSE LET lines == findchildren(findchildren(routine, "STContent")[1], "Line")
                 IN  <<"", "// Routine: " \o Get(routine, "Name", "Unknown")
                               \o " (Structured Text)">>
                     \o [k \in 1..Len(lines) |->
                            "// Line " \o Get(lines[k], "Number", "Unknown") \o " - No content"]
        text == Flatten([i \in 1..Len(main_programs) |->
                    Flatten([k \in 1..Len(routines_of(main_programs[i])) |->
                                lines_of(routines_of(main_programs[i])[k])])])
    IN  IF text = <<>> THEN <<>> ELSE text \o <<"">>

\* _generate_st_code, as the lines of the returned text
generate_st_text(tags, logic_lines) ==
    <<"// Generated Structured Text Code", "// Converted from L5X file", "">>
    \o (IF tags = <<>> THEN <<>>
        ELSE <<"// Variable Declarations", "VAR">>
             \o [k \in 1..Len(tags) |->
                    "    " \o tags[k].name \o " : " \o tags[k].data_type \o ";"]
             \o <<"END_VAR", "">>)
    \o (IF logic_lines = <<>> THEN <<>>
        ELSE <<"// Program Logic", "PROGRAM MainProgram", "VAR",
               "    // Program variables declared above", "END_VAR", "",
               "// Main program logic">>
             \o logic_lines \o <<"END_PROGRAM", "">>)

convert_l5x_to_st(project) ==
    generate_st_text(ExtractTagInfos(AccessorTags(AccessorController(project))),
                     extract_program_logic_from_xml(project))

\* l5x2st_main() with --use-ir
l5x2st_main(rank) ==
    /\ cli_pc = "start" /\ argv.entry = "l5x2st" /\ argv.use_ir
    /\ \E run \in {IF argv.directory
                   THEN [output_file |-> Absent, exit_code |-> 1,
                         echoed |-> <<"Error: IR mode not yet supported for directory conversion.">>]
                   ELSE IF input_file = Absent
                   THEN [output_file |-> Absent, exit_code |-> 1,
                         echoed |-> <<"Error: Input file not found.">>]
                   ELSE LET st_ir_project == l5x_to_ir(input_file, rank)
                        IN  [output_file |-> [text |-> convert_l5x_to_st(input_file)],
                             exit_code |-> 0,
                             echoed |-> <<"[INFO] IR validation passed. Wrote ST code">>]} :
           /\ output_file' = run.output_file
           /\ exit_code' = run.exit_code
           /\ echoed' = <<"[INFO] IR/guardrail mode enabled: L5X->IR->ST with validation.">>
                        \o run.echoed
    /\ cli_pc' = "exited"
    /\ UNCHANGED <<argv, input_file>>

\* The L5X files converted: up to MaxCliTags controller tags, and no
\* program, a program without routines, or a program with an ST routine.
MaxCliTags == 2

L5XFiles ==
    {ExtractDocument(x[1], <<>>, x[2]) :
        x \in {y \in SeqsUpTo(SourceTags, MaxCliTags) :
                    \A i, j \in 1..Len(y) : i # j => y[i] # y[j]}
               \X {<<>>, <<<<>>>>, <<<<"ST">>>>}}

InitL5x2st ==
    /\ argv \in [entry : {"l5x2st"}, use_ir : {TRUE}, directory : BOOLEAN]
    /\ input_file \in L5XFiles \cup {Absent}
    /\ output_file = Absent /\ exit_code = 0 /\ echoed = <<>> /\ cli_pc = "start"
    /\ rung = <<>> /\ formatted = <<>> /\ instr_list = <<>> /\ st = <<>>
    /\ ld_pc = "idle"
    /\ sheets = <<>> /\ input_refs = <<>> /\ output_refs = <<>>
    /\ function_blocks = <<>> /\ wires = <<>> /\ execution_order = <<>>
    /\ st_code = <<>> /\ fbd_pc = "idle"
    /\ document = <<>> /\ original = <<>> /\ l5x_xml = <<>> /\ converted = <<>>
    /\ score = <<>> /\ ir_pc = "idle" /\ conversion_metadata = <<>>
    /\ identifier = <<>> /\ results = <<>>
    /\ st_source = <<>> /\ variables = <<>> /\ user_types = {} /\ program_logic = <<>>
    /\ l5x_root = <<>> /\ lift_pc = "idle"
    /\ validated_project = <<>> /\ validation = <<>> /\ val_pc = "idle"
    /\ state = <<>> /\ add_calls = <<>> /\ parsed_files = <<>> /\ consolidated = <<>> /\ called = <<>>

NextL5x2st ==
    \E rank \in Ranks :
        l5x2st_main(rank)
            /\ UNCHANGED <<ldVars, fbdVars, irVars, sanVars, liftVars, valVars, convVars>>

(***************************************************************************)
(* The L5X to ST converter (models.py, l5x2st.py): one L5X2STConverter and *)
(* its CompilerState.  A variable name and a file path are the sequences   *)
(* of their characters; a declaration text is the sequence of its pieces.  *)
(***************************************************************************)
lower_chars(s) ==
    [i \in 1..Len(s) |->
        IF \E k \in 1..Len(UpperCase) : UpperCase[k] = s[i]
        THEN LowerCase[CHOOSE k \in 1..Len(UpperCase) : UpperCase[k] = s[i]]
        ELSE s[i]]

\* CompilerState(): the field defaults
CompilerState ==
    [fbd_timers |-> <<>>, data_types |-> EmptyMap, fbd_types |-> EmptyMap,
     struct_names |-> {}, var_names |-> <<>>, fbd_names |-> {},
     fbd_origin |-> EmptyMap, var_origin |-> EmptyMap, struct_origin |-> EmptyMap,
     msgs_to_initialize |-> <<>>, local_vars_to_remove |-> <<>>,
     current_controller |-> 1, appended_reserved_words |-> <<>>]

\* a reset that starts from a new CompilerState
reset_to_defaults(cs) ==
    [CompilerState EXCEPT !.current_controller = cs.current_controller + 1]

reset_for_new_controller(cs) ==
    [cs EXCEPT !.current_controller = @ + 1, !.appended_reserved_words = <<>>]

\* add_variable keeping the name as written
add_variable_as_written(cs, var_name, data_type, origin) ==
    IF \E i \in 1..Len(cs.var_names) : cs.var_names[i] = var_name THEN cs
    ELSE [cs EXCEPT !.var_names = Append(@, var_name),
                    !.data_types = MapSet(@, var_name, data_type),
                    !.var_origin = MapSet(@, var_name, origin)]

add_variable(cs, var_name, data_type, origin) ==
    LET var_name_lower == lower_chars(var_name)
    IN  IF \E i \in 1..Len(cs.var_names) : cs.var_names[i] = var_name_lower THEN cs
        ELSE [cs EXCEPT !.var_names = Append(@, var_name_lower),
                        !.data_types = MapSet(@, var_name_lower, data_type),
                        !.var_origin = MapSet(@, var_name_lower, origin)]

add_struct(cs, struct_name, origin) ==
    IF struct_name \in cs.struct_names THEN cs
    ELSE [cs EXCEPT !.struct_names = @ \cup {struct_name},
                    !.struct_origin = MapSet(@, struct_name, origin)]

\* add_function that keeps no record of the name
add_function_unrecorded(cs, func_name, origin) == cs

add_function(cs, func_name, origin) ==
    IF func_name \in cs.fbd_names THEN cs
    ELSE [cs EXCEPT !.fbd_names = @ \cup {func_name},
                    !.fbd_origin = MapSet(@, func_name, origin)]

\* constants.py: the auxiliary definitions in dict order, each text given by
\* the line that declares it.
AUXILIARY_STRUCTS ==
    <<[name |-> "DOMINANT_SET", text |-> "TYPE  DOMINANT_SET :"],
      [name |-> "MESSAGE", text |-> "TYPE MESSAGE:"]>>

AUXILIARY_FUNCTIONS ==
    <<[name |-> "SETD: BOOL", text |-> "FUNCTION SETD : BOOL"],
      [name |-> "SCL: SCALE", text |-> "FUNCTION SCL: SCALE"],
      [name |-> "ALM: ALARM", text |-> "FUNCTION ALM: ALARM"],
      [name |-> "OSRI: BOOL", text |-> "FUNCTION OSRI :BOOL"],
      [name |-> "MSG: MESSAGE", text |-> "FUNCTION MSG: MESSAGE"]>>

UNIMPLEMENTED_TYPES == "BIT" :> "BOOL" @@ "TIMER" :> "TIME"
DUPLICATE_FBDS == {"Duty2_FBD"}
BIT_ACCESS_HELPER ==
    <<"b", "i", "t", "_", "a", "c", "c", "e", "s", "s", "_", "h", "e", "l", "p", "e", "r">>

convert_datatype_to_struct(dtype_name, dtype) ==
    "TYPE " \o dtype_name \o ":\n\tSTRUCT\n"
    \o Concat([k \in 1..Len(dtype) |->
                  "\t\t" \o dtype[k].name \o ": "
                  \o (IF dtype[k].data_type \in DOMAIN UNIMPLEMENTED_TYPES
                      THEN UNIMPLEMENTED_TYPES[dtype[k].data_type]
                      ELSE dtype[k].data_type) \o ";\n"])
    \o "\tEND_STRUCT;\nEND_TYPE"

convert_functionblock_to_function(fb_name) ==
    "FUNCTION " \o fb_name \o ": BOOL\n\t(*Function block " \o fb_name
    \o " converted to function*)\n\t" \o fb_name \o " := TRUE;\nEND_FUNCTION"

\* The loops of _generate_struct_decs: a definition whose name the state
\* does not hold yet is emitted and its name added.
RECURSIVE EmitStructs(_, _, _)
EmitStructs(acc, items, origin) ==
    IF items = <<>> THEN acc
    ELSE EmitStructs(IF Head(items).name \in acc.state.struct_names THEN acc
                     ELSE [state |-> add_struct(acc.state, Head(items).name, origin),
                           text |-> Append(acc.text, Head(items).text \o "\n\n")],
                     Tail(items), origin)

generate_struct_decs(cs, prj) ==
    LET auxiliary == EmitStructs([state |-> cs, text |-> <<"(*Structure Declarations*)\n">>],
                                 AUXILIARY_STRUCTS, "auxiliary")
    IN  EmitStructs([auxiliary EXCEPT
                        !.text = Append(@, "(*Module structures would be processed here*)\n")],
                    [k \in 1..Len(prj.datatypes) |->
                        [name |-> prj.datatypes[k].name,
                         text |-> convert_datatype_to_struct(prj.datatypes[k].name,
                                                             prj.datatypes[k].members)]],
                    "project")

\* The loops of _generate_func_decs
RECURSIVE EmitFunctions(_, _, _)
EmitFunctions(acc, items, origin) ==
    IF items = <<>> THEN acc
    ELSE EmitFunctions(IF Head(items).name \in acc.state.fbd_names THEN acc
                       ELSE [state |-> add_function(acc.state, Head(items).name, origin),
                             text |-> Append(acc.text, Head(items).text \o "\n\n")],
                       Tail(items), origin)

generate_func_decs(cs, prj) ==
    EmitFunctions(EmitFunctions([state |-> cs, text |-> <<"(*Function Declarations*)\n">>],
                                AUXILIARY_FUNCTIONS, "auxiliary"),
                  [k \in 1..Len(prj.functionblocks) |->
                      [name |-> prj.functionblocks[k],
                       text |-> convert_functionblock_to_function(prj.functionblocks[k])]],
                  "project")

\* One tag loop of _generate_var_decs; made is the add_variable calls made.
RECURSIVE DeclareTags(_, _)
DeclareTags(acc, tags) ==
    IF tags = <<>> THEN acc
    ELSE LET tag_name == Head(tags).name
             renamed == IF tag_name \in DOMAIN RESERVED_WORDS
                        THEN RESERVED_WORDS[tag_name] ELSE tag_name
             implemented == IF Head(tags).data_type \in DOMAIN UNIMPLEMENTED_TYPES
                            THEN UNIMPLEMENTED_TYPES[Head(tags).data_type]
                            ELSE Head(tags).data_type
             controller == ToString(acc.state.current_controller)
             var_name == IF implemented = "FBD_TIMER"
                         THEN renamed \o <<controller, "_", "T", "M", "R">> ELSE renamed
             dtype == IF implemented = "FBD_TIMER" THEN "TON"
                      ELSE IF implemented \in DUPLICATE_FBDS THEN implemented \o controller
                      ELSE implemented
             timed == IF implemented = "FBD_TIMER"
                      THEN [acc.state EXCEPT !.fbd_timers = Append(@, var_name)]
                      ELSE acc.state
         IN  DeclareTags(
                 IF \E i \in 1..Len(timed.var_names) : timed.var_names[i] = lower_chars(var_name)
                 THEN [acc EXCEPT !.state = timed]
                 ELSE [state |-> add_variable(timed, var_name, dtype, tag_name),
                       text |-> Append(acc.text,
                                       "\t\t" \o Concat(var_name) \o ": " \o dtype \o ";\n"),
                       made |-> Append(acc.made, [var_name |-> var_name, data_type |-> dtype,
                                                  origin |-> tag_name])],
                 Tail(tags))

generate_var_decs(cs, prj) ==
    LET controller_tags ==
            DeclareTags([state |-> cs,
                         text |-> <<"PROGRAM prog0\nVAR\n", "\t(*Controller Tags*)\n">>,
                         made |-> <<>>],
                        prj.tags)
        main_tags ==
            IF prj.main_tags = <<>> THEN controller_tags
            ELSE DeclareTags([controller_tags EXCEPT
                                 !.text = Append(@, "\t(*Main Program Tags*)\n")],
                             prj.main_tags)
        helper ==
            IF \E i \in 1..Len(main_tags.state.var_names) :
                   main_tags.state.var_names[i] = lower_chars(BIT_ACCESS_HELPER)
            THEN main_tags
            ELSE [state |-> add_variable(main_tags.state, BIT_ACCESS_HELPER, "DWORD",
                                         BIT_ACCESS_HELPER),
                  text |-> main_tags.text
                           \o <<"\t(*Bit Access Helper*)\n\t\t" \o Concat(BIT_ACCESS_HELPER)
                                \o ": DWORD;\n">>,
                  made |-> Append(main_tags.made,
                                  [var_name |-> BIT_ACCESS_HELPER, data_type |-> "DWORD",
                                   origin |-> BIT_ACCESS_HELPER])]
    IN  [helper EXCEPT !.text = Append(@, "END_VAR\n")]

\* utils.initialize_messages
initialize_messages(tags) ==
    <<"\n\t(*Initialize Messages*)\n">>
    \o Flatten([k \in 1..Len(tags) |->
                   IF tags[k].data_type # "MESSAGE" THEN <<>>
                   ELSE [j \in 1..5 |->
                            "\t" \o Concat(tags[k].name) \o "."
                            \o <<"EN1", "EW", "ST", "DN", "ER">>[j] \o " := 0;\n"]])

\* _generate_prog_block; the main routine of the projects converted has no
\* rungs, so process_routine returns "".
generate_prog_block(prj) ==
    initialize_messages(prj.tags) \o <<"\nEND_PROGRAM\n", "CONFIGURATION Config0">>

\* L5X2STConverter.parse_l5x_file on the project the file holds: the STFile
\* returned, the state left and the add_variable calls made.
ParseFile(cs, prj) ==
    LET structs == generate_struct_decs(cs, prj)
        funcs == generate_func_decs(structs.state, prj)
        decls == generate_var_decs(funcs.state, prj)
    IN  [state |-> decls.state,
         st_file |-> [struct_decs |-> structs.text, func_decs |-> funcs.text,
                      var_decs |-> decls.text, prog_block |-> generate_prog_block(prj)],
         made |-> decls.made]

add_st_content(total, st_file) ==
    [struct_decs |-> total.struct_decs \o st_file.struct_decs,
     func_decs |-> total.func_decs \o st_file.func_decs,
     var_decs |-> total.var_decs \o st_file.var_decs,
     prog_block |-> total.prog_block \o st_file.prog_block]

\* Python's order of the characters a lower-cased path is made of.
CodePoints ==
    <<".", "/", "0", "1", "2", "3", "4", "5", "6", "7", "8", "9", "_">> \o LowerCase

CodePoint(c) == CHOOSE k \in 1..Len(CodePoints) : CodePoints[k] = c

\* a < b for two strings
RECURSIVE Less(_, _)
Less(a, b) ==
    IF b = <<>> THEN FALSE
    ELSE IF a = <<>> THEN TRUE
    ELSE IF Head(a) # Head(b) THEN CodePoint(Head(a)) < CodePoint(Head(b))
    ELSE Less(Tail(a), Tail(b))

\* list.sort(key=str.lower): stable
RECURSIVE SortLower(_)
SortLower(l5x_files) ==
    IF l5x_files = <<>> THEN <<>>
    ELSE LET rest == SortLower(Tail(l5x_files))
             before == {i \in 1..Len(rest) :
                           Less(lower_chars(rest[i].path), lower_chars(Head(l5x_files).path))}
         IN  SubSeq(rest, 1, Cardinality(before)) \o <<Head(l5x_files)>>
             \o SubSeq(rest, Cardinality(before) + 1, Len(rest))

endswith(s, suffix) ==
    Len(s) >= Len(suffix) /\ SubSeq(s, Len(s) - Len(suffix) + 1, Len(s)) = suffix

\* One turn of the file loop of parse_l5x_directory: add_st_content, then
\* reset_for_new_controller.
AddFile(acc, file, path) ==
    [state |-> reset_for_new_controller(file.state),
     st_file |-> add_st_content(acc.st_file, file.st_file),
     made |-> acc.made \o file.made,
     each |-> Append(acc.each, [st_file |-> file.st_file, path |-> path,
                                controller |-> acc.state.current_controller])]

ParseNext(acc, l5x_file) ==
    AddFile(acc, ParseFile(acc.state, l5x_file.project), l5x_file.path)

\* The file loop of parse_l5x_directory: the file parsed next is the one
\* after those parsed so far.
RECURSIVE ParseFiles(_, _)
ParseFiles(acc, l5x_files) ==
    IF Len(acc.each) = Len(l5x_files) THEN acc
    ELSE ParseFiles(ParseNext(acc, l5x_files[Len(acc.each) + 1]), l5x_files)

\* parse_l5x_directory on the files os.walk lists
ParseDirectory(cs, walked) ==
    ParseFiles([state |-> cs,
                st_file |-> [struct_decs |-> <<>>, func_decs |-> <<>>,
                             var_decs |-> <<>>, prog_block |-> <<>>],
                made |-> <<>>, each |-> <<>>],
               SortLower(SelectSeq(walked,
                   LAMBDA f : endswith(upper_chars(f.path), <<".", "L", "5", "X">>))))

\* ---- the calls made on the converter, up to MaxConverterCalls of them
MaxConverterCalls == 3
MaxListed == 2

call_add_variable(var_name, data_type, origin) ==
    /\ called.n < MaxConverterCalls
    /\ state' = add_variable(state, var_name, data_type, origin)
    /\ add_calls' = Append(add_calls, [var_name |-> var_name, data_type |-> data_type,
                                       origin |-> origin])
    /\ called' = [op |-> "add_variable", files |-> <<>>, n |-> called.n + 1]
    /\ UNCHANGED <<parsed_files, consolidated>>

call_reset_for_new_controller ==
    /\ called.n < MaxConverterCalls
    /\ state' = reset_for_new_controller(state)
    /\ called' = [op |-> "reset_for_new_controller", files |-> <<>>, n |-> called.n + 1]
    /\ UNCHANGED <<add_calls, parsed_files, consolidated>>

\* state.appended_reserved_words = ["test"], as the test of the reset does
assign_appended_reserved_words ==
    /\ called.n < MaxConverterCalls
    /\ state.appended_reserved_words = <<>>
    /\ state' = [state EXCEPT !.appended_reserved_words = <<"test">>]
    /\ called' = [op |-> "assign", files |-> <<>>, n |-> called.n + 1]
    /\ UNCHANGED <<add_calls, parsed_files, consolidated>>

parse_l5x_file(file) ==
    /\ called.n < MaxConverterCalls
    /\ \E r \in {ParseFile(state, file.project)} :
           /\ state' = r.state
           /\ add_calls' = add_calls \o r.made
           /\ parsed_files' = Append(parsed_files,
                                     [st_file |-> r.st_file, path |-> file.path,
                                      controller |-> state.current_controller])
           /\ consolidated' = r.st_file
    /\ called' = [op |-> "parse_l5x_file", files |-> <<file.path>>, n |-> called.n + 1]

parse_l5x_directory(walked) ==
    /\ called.n < MaxConverterCalls
    /\ \E r \in {ParseDirectory(state, walked)} :
           /\ state' = r.state
           /\ add_calls' = add_calls \o r.made
           /\ parsed_files' = parsed_files \o r.each
           /\ consolidated' = r.st_file
    /\ called' = [op |-> "parse_l5x_directory",
                  files |-> [k \in 1..Len(walked) |-> walked[k].path], n |-> called.n + 1]

\* The projects the files hold, by path.
L5XProjects ==
    <<[path |-> <<"p", "1", ".", "l", "5", "x">>,
       project |-> [datatypes |-> <<[name |-> "MESSAGE", members |-> <<>>],
                                    [name |-> "Motor",
                                     members |-> <<[name |-> "Run", data_type |-> "BIT"]>>]>>,
                    functionblocks |-> <<"SETD">>,
                    tags |-> <<[name |-> <<"O", "N">>, data_type |-> "BOOL"],
                               [name |-> <<"M", "s", "g">>, data_type |-> "MESSAGE"]>>,
                    main_tags |-> <<[name |-> <<"T">>, data_type |-> "FBD_TIMER"]>>]],
      [path |-> <<"P", "2", ".", "L", "5", "X">>,
       project |-> [datatypes |-> <<[name |-> "Motor", members |-> <<>>]>>,
                    functionblocks |-> <<"Duty">>,
                    tags |-> <<[name |-> <<"o", "n", "1">>, data_type |-> "DINT"],
                               [name |-> <<"T">>, data_type |-> "FBD_TIMER"]>>,
                    main_tags |-> <<>>]],
      [path |-> <<"P", "1", "0", ".", "L", "5", "X">>,
       project |-> [datatypes |-> <<>>, functionblocks |-> <<>>,
                    tags |-> <<[name |-> <<"D">>, data_type |-> "Duty2_FBD"]>>,
                    main_tags |-> <<>>]]>>

L5XPaths == {L5XProjects[k] : k \in 1..Len(L5XProjects)}

\* A directory as os.walk lists it: up to MaxListed files among two of the
\* L5X files and a file of another kind, in any order.
Directories ==
    {y \in SeqsUpTo({[path |-> <<"n", ".", "t", "x", "t">>, project |-> None],
                     L5XProjects[1], L5XProjects[2]}, MaxListed) :
        \A i, j \in 1..Len(y) : i # j => y[i] # y[j]}

AddedNames == {<<"R", "u", "n">>, <<"R", "U", "N">>}

InitConverter ==
    /\ state = CompilerState
    /\ add_calls = <<>> /\ parsed_files = <<>> /\ consolidated = None
    /\ called = [op |-> "L5X2STConverter", files |-> <<>>, n |-> 0]
    /\ rung = <<>> /\ formatted = <<>> /\ instr_list = <<>> /\ st = <<>>
    /\ ld_pc = "idle"
    /\ sheets = <<>> /\ input_refs = <<>> /\ output_refs = <<>>
    /\ function_blocks = <<>> /\ wires = <<>> /\ execution_order = <<>>
    /\ st_code = <<>> /\ fbd_pc = "idle"
    /\ document = <<>> /\ original = <<>> /\ l5x_xml = <<>> /\ converted = <<>>
    /\ score = <<>> /\ ir_pc = "idle" /\ conversion_metadata = <<>>
    /\ identifier = <<>> /\ results = <<>>
    /\ st_source = <<>> /\ variables = <<>> /\ user_types = {} /\ program_logic = <<>>
    /\ l5x_root = <<>> /\ lift_pc = "idle"
    /\ validated_project = <<>> /\ validation = <<>> /\ val_pc = "idle"
    /\ argv = <<>> /\ input_file = <<>> /\ output_file = <<>> /\ exit_code = 0
    /\ echoed = <<>> /\ cli_pc = "idle"

NextConverter ==
    \/ \E var_name \in AddedNames, data_type \in {"BOOL", "DINT"} :
           call_add_variable(var_name, data_type, var_name)
               /\ UNCHANGED <<ldVars, fbdVars, irVars, sanVars, liftVars, valVars, cliVars>>
    \/ call_reset_for_new_controller
           /\ UNCHANGED <<ldVars, fbdVars, irVars, sanVars, liftVars, valVars, cliVars>>
    \/ assign_appended_reserved_words
           /\ UNCHANGED <<ldVars, fbdVars, irVars, sanVars, liftVars, valVars, cliVars>>
    \/ \E file \in L5XPaths :
           parse_l5x_file(file)
               /\ UNCHANGED <<ldVars, fbdVars, irVars, sanVars, liftVars, valVars, cliVars>>
    \/ \E walked \in Directories :
           parse_l5x_directory(walked)
               /\ UNCHANGED <<ldVars, fbdVars, irVars, sanVars, liftVars, valVars, cliVars>>

(***************************************************************************)
(* Specifications: one per component; the other components stay idle.      *)
(***************************************************************************)
SpecLD == InitLD /\ [][NextLD]_vars
SpecGroups == InitGroups /\ [][NextLD]_vars

SpecFBD == InitFBD /\ [][NextFBD]_vars

SpecFidelity == InitFidelity /\ [][NextFidelity]_vars

SpecRoundTrip == InitRoundTrip /\ [][NextRoundTrip]_vars

SpecSanitize == InitSanitize /\ [][NextSanitize]_vars

SpecLift == InitLift /\ [][NextLift]_vars
SpecExtract == InitExtract /\ [][NextExtract]_vars
SpecValidate == InitValidate /\ [][NextValidate]_vars
SpecSt2l5x == InitSt2l5x /\ [][NextSt2l5x]_vars
SpecL5x2st == InitL5x2st /\ [][NextL5x2st]_vars
SpecConverter == InitConverter /\ [][NextConverter]_vars

(***************************************************************************)
(* Properties of the LD translator                                         *)
(***************************************************************************)
\* The LLFunc of one call written as tokens  NAME ( p1 , p2 ... ).
ParseCall(call) == LLFunc(call[1], SubSeq(call, 3, Len(call) - 1))

CondText(call) == CONDITIONAL_FUNCTIONS_IMPL(ParseCall(call).fname, ParseCall(call).params)

WellFormedConditions == {Call("XIC", <<"Start">>), Call("XIO", <<"Stop">>)}

\* c1 , c2 , ... , cn OTE(Run)
CommaRung(conds) ==
    Flatten([k \in 1..(2 * Len(conds) - 1) |->
                IF k % 2 = 1 THEN conds[(k + 1) \div 2] ELSE <<",">>])
    \o Call("OTE", <<"Run">>)

AndOfAll(conds) == JoinStr([k \in 1..Len(conds) |-> CondText(conds[k])], " AND ")

CondLists == UNION {[1..n -> WellFormedConditions] : n \in 1..(MaxItems - 1)}

\* C1: a rung of n >= 1 comma-separated conditions followed directly by
\* OTE(y) is translated into one IF whose guard is the AND of the translations
\* of all n conditions in rung order, with y := 1 in the THEN arm, y := 0 in
\* the ELSE arm, closed by END_IF.
C1_CommaRungIsOneGuardedIf ==
    ld_pc = "done" =>
        \A conds \in CondLists :
            rung = CommaRung(conds) =>
                Concat(st) = "IF (" \o AndOfAll(conds)
                             \o ") THEN\n\tRun := 1;\nELSE\n\tRun := 0;\nEND_IF;\n"

Count(s, x) == Cardinality({k \in 1..Len(s) : s[k] = x})

\* The pieces between the first "IF (" and the first ") THEN\n".
GuardOf(s) ==
    LET a == Find(s, "IF (")
        b == Find(s, ") THEN\n")
    IN  IF a = -1 \/ b = -1 THEN <<>> ELSE Slice(s, a + 1, b)

\* Conditions only, each followed by "," or by nothing, then a single OTE(Run).
PureRung(conds, commas) ==
    Flatten([k \in 1..(2 * Len(conds)) |->
                IF k % 2 = 1 THEN conds[(k + 1) \div 2]
                ELSE IF commas[k \div 2] THEN <<",">> ELSE <<>>])
    \o Call("OTE", <<"Run">>)

\* C2: for a rung of condition mnemonics only that ends in a single OTE(y),
\* the output energizes y exactly once (one `y := 1;`, under one IF), and the
\* guard of that IF is the exact boolean translation of the rung's conditions.
C2_PureRungOneGuardedAssignment ==
    ld_pc = "done" =>
        \A conds \in CondLists :
            \A commas \in [1..Len(conds) -> BOOLEAN] :
                (~commas[Len(conds)] /\ rung = PureRung(conds, commas)) =>
                    /\ Count(st, "Run := 1;") = 1
                    /\ Count(st, "IF (") = 1
                    /\ Concat(GuardOf(st)) = AndOfAll(conds)

\* C3: the rung  c TON(t,pre,acc)  is accepted (no arity error is reported for
\* the three-parameter TON) and is translated with an ELSE arm that resets the
\* timer.
C3_ThreeParamTonAccepted ==
    ld_pc = "done" =>
        \A c \in WellFormedConditions :
            rung = c \o Call("TON", <<"T1", "T#5s", "Elapsed">>) =>
                /\ Count(st, ArityError("TON", "2 parameters")) = 0
                /\ Count(st, "ELSE\n") = 1

\* The group of the rung that process_instruction_list treats as actions, and
\* its non-condition instructions in rung order.
ActionGroup ==
    IF instr_list = <<>> THEN <<>>
    ELSE IF Len(instr_list) > 1 THEN instr_list[2] ELSE instr_list[1]

ActionInstrs == SelectSeq(Flatten(ActionGroup), LAMBDA f : ~f.conditional)

\* The number of parameters each regular mnemonic requires (NOP takes any).
RequiredParams ==
    [m \in REGULAR_FUNCTIONS |->
        CASE m \in {"OTE", "OTL", "OTU", "CLR", "JSR", "MSG", "RES", "RTRIG", "FTRIG"} -> 1
          [] m \in {"TON", "TOF", "TONR", "MOV", "SQR", "ABS", "OSR", "OSF",
                    "BTD", "DTB", "FRD", "TOD"} -> 2
          [] m \in {"COP", "CTU", "CTD", "MUL", "ADD", "SUB", "DIV", "MOD"} -> 3
          [] m \in {"GSV", "SSV", "CTUD"} -> 4
          [] OTHER -> -1]

WrongArity(f) ==
    /\ f.fname \in REGULAR_FUNCTIONS
    /\ RequiredParams[f.fname] # -1
    /\ Len(f.params) # RequiredParams[f.fname]

Unknown(f) == f.fname \notin REGULAR_FUNCTIONS \cup CONDITIONAL_FUNCTIONS

CountWord(n) ==
    CASE n = 1 -> "1 parameter" [] n = 2 -> "2 parameters"
      [] n = 3 -> "3 parameters" [] n = 4 -> "4 parameters"

\* What the claim asks of one instruction of the action group.
InlineComment(f) ==
    IF Unknown(f)
    THEN "// Unknown function: " \o f.fname \o "(" \o JoinStr(f.params, ", ") \o ")\n"
    ELSE IF WrongArity(f)
    THEN "// ERROR: " \o f.fname \o " requires exactly " \o CountWord(RequiredParams[f.fname])
    ELSE REGULAR_FUNCTIONS_IMPL(f.fname, f.params, TRUE)

RECURSIVE IsSubseq(_, _)
IsSubseq(a, b) ==
    IF a = <<>> THEN TRUE
    ELSE IF b = <<>> THEN FALSE
    ELSE IF Head(a) = Head(b) THEN IsSubseq(Tail(a), Tail(b))
    ELSE IsSubseq(a, Tail(b))

\* An "// ERROR:" comment that carries the original call: mnemonic and
\* parameters.
ErrorCommentsCarrying(f) ==
    {"// ERROR: " \o f.fname \o "(" \o JoinStr(f.params, sep) \o ")" \o tail :
        sep \in {",", ", "}, tail \in {"", "\n"}}

BadConditionRungs ==
    {Call("EQU", <<"Level">>) \o a : a \in ActionCalls}

BlockIds(sheet) == {sheet.fbs[i].id : i \in 1..Len(sheet.fbs)}
RefIds(sheet) == {sheet.irefs[i].id : i \in 1..Len(sheet.irefs)}
               \cup {sheet.orefs[i].id : i \in 1..Len(sheet.orefs)}
OperandOf(sheet, id) ==
    LET all == sheet.fbs \o sheet.irefs \o sheet.orefs
    IN  all[CHOOSE i \in 1..Len(all) : all[i].id = id].operand

\* The wires of a sheet that join two of its instances.
BlockWires(sheet) ==
    SelectSeq(sheet.wires, LAMBDA w : w.from_id \in BlockIds(sheet)
                                      /\ w.to_id \in BlockIds(sheet))

\* The instances can be numbered so that every wire goes upwards.
Acyclic(sheet) ==
    \E r \in [BlockIds(sheet) -> 1..Cardinality(BlockIds(sheet))] :
        \A i \in 1..Len(BlockWires(sheet)) :
            r[BlockWires(sheet)[i].from_id] < r[BlockWires(sheet)[i].to_id]

\* The lines emitted under "// Sheet k".
SheetCode(k) ==
    LET R == {i \in 1..Len(st_code) : st_code[i].header = <<"// Sheet ", ToString(k)>>}
    IN  IF R = {} THEN <<>> ELSE st_code[CHOOSE i \in R : TRUE].code

IsCall(line) == Len(line) >= 3 /\ line[2] = "("
CallsIn(code) == SelectSeq(code, IsCall)
CallsOf(operand, code) == SelectSeq(code, LAMBDA l : IsCall(l) /\ l[1] = operand)
BindingsOf(line) == {line[j] : j \in {i \in 3..(Len(line) - 1) : i % 2 = 1}}

\* C5: on an acyclic sheet, for every wire from instance A to instance B the
\* call of A is emitted before the call of B.
C5_SourceCalledBeforeTarget ==
    \A k \in 1..Len(sheets) :
        Acyclic(sheets[k]) =>
            \A i \in 1..Len(BlockWires(sheets[k])) :
                LET w == BlockWires(sheets[k])[i]
                    A == OperandOf(sheets[k], w.from_id)
                    B == OperandOf(sheets[k], w.to_id)
                    calls == CallsIn(SheetCode(k))
                IN  /\ \E j \in 1..Len(calls) : calls[j][1] = B
                    /\ \A j \in 1..Len(calls) :
                          calls[j][1] = B => \E h \in 1..(j - 1) : calls[h][1] = A

\* The bindings the wires of one sheet give, resolved on that sheet alone.
SheetBindings(sheet) ==
    LET irefs == ParseRefs(sheet.irefs, EmptyMap)
        orefs == ParseRefs(sheet.orefs, EmptyMap)
        fbs == ParseFunctionBlocks(sheet.fbs, [ids |-> <<>>, info |-> EmptyMap])
    IN  {sheet.wires[i].to_param \o " := "
            \o get_source_value(sheet.wires[i].from_id, sheet.wires[i].from_param,
                                irefs, orefs, fbs) : i \in 1..Len(sheet.wires)}

\* C6: the maps are cleared at the start of each sheet, so the code under
\* "// Sheet k" has calls of sheet k's instances only, bindings from sheet k's
\* wires only, and every instance of the routine is called exactly once.
C6_SheetCodeIsSheetLocal ==
    /\ \A k \in 1..Len(sheets) :
          \A j \in 1..Len(CallsIn(SheetCode(k))) :
              LET call == CallsIn(SheetCode(k))[j]
              IN  /\ \E id \in BlockIds(sheets[k]) : call[1] = OperandOf(sheets[k], id)
                  /\ BindingsOf(call) \subseteq SheetBindings(sheets[k])
    /\ \A k \in 1..Len(sheets) : \A id \in BlockIds(sheets[k]) :
          /\ Len(CallsOf(OperandOf(sheets[k], id), SheetCode(k))) = 1
          /\ \A h \in 1..Len(sheets) :
                h # k => CallsOf(OperandOf(sheets[k], id), SheetCode(h)) = <<>>

WireSource(w) ==
    IF w.from_id \in DOMAIN input_refs THEN input_refs[w.from_id]
    ELSE IF w.from_id \in DOMAIN output_refs THEN output_refs[w.from_id]
    ELSE IF w.from_id \notin DOMAIN function_blocks.info \/ w.from_param = "" THEN NoSource
    ELSE LET src == function_blocks.info[w.from_id]
         IN  IF w.from_param \in DOMAIN src.inputs THEN src.inputs[w.from_param]
             ELSE src.operand \o "." \o w.from_param

\* The wires of the translator's list that bind a pin of instance id.
BindingWires(id) ==
    SelectSeq(wires, LAMBDA w : w.to_id = id /\ w.to_param # "" /\ WireSource(w) # NoSource)

TagsMatch(a, b) == a.name = b.name /\ a.data_type = b.data_type /\ a.scope = b.scope

UserTypesMatch(a, b) == a.name = b.name /\ Len(a.members) = Len(b.members)

ProgramsMatch(a, b) == a.name = b.name /\ Len(a.routines) = Len(b.routines)

\* The components of os that have a matching component in cs.
Matched(os, cs, Match(_, _)) ==
    Cardinality({i \in 1..Len(os) : \E j \in 1..Len(cs) : Match(os[i], cs[j])})

MatchedComponents ==
    Matched(original.controller.tags, converted.controller.tags, TagsMatch)
    + Matched(original.controller.data_types, converted.controller.data_types, UserTypesMatch)
    + Matched(original.programs, converted.programs, ProgramsMatch)

TotalComponents ==
    Len(original.controller.tags) + Len(original.controller.data_types)
    + Len(original.programs)

\* C8: the score returned for (original, converted) lies in [0, 1] and equals
\* the number of matched components divided by |original.controller.tags| +
\* |original.controller.data_types| + |original.programs|, and is 1 when that
\* sum is zero; for every pair of projects, repeated names included.
C8_ScoreIsMatchedOverListLengths ==
    ir_pc = "done" =>
        /\ 0 <= score.num /\ score.num <= score.den /\ score.den > 0
        /\ TotalComponents = 0 => score.num = score.den
        /\ TotalComponents > 0 => score.num * TotalComponents = MatchedComponents * score.den

(***************************************************************************)
(* The round trip (checked under SpecRoundTrip).                           *)
(***************************************************************************)
OnlySTRoutines(P) ==
    \A k \in 1..Len(P.programs) :
        \A i \in 1..Len(P.programs[k].routines) :
            P.programs[k].routines[i].routine_type = "ST"

\* C9: for a project P extracted from a valid document, the fidelity of
\* extract(serialize(P)) against P is at least 0.95, and exactly 1 when P has
\* no user types and only ST routines.
C9_RoundTripFidelity ==
    ir_pc = "done" =>
        /\ score.num * 100 >= 95 * score.den
        /\ (original.controller.data_types = <<>> /\ OnlySTRoutines(original))
               => score.num = score.den

(***************************************************************************)
(* Identifier sanitising (checked under SpecSanitize).                     *)
(***************************************************************************)
\* C10: sanitize_identifier is idempotent: sanitising the result of a call
\* again gives the same identifier.
C10_SanitizeIdempotent ==
    Len(results) >= 2 => results[2] = results[1]

\* C11: every key k of RESERVED_WORDS is sanitised to RESERVED_WORDS[k], in
\* whatever letter case the key is written.
C11_ReservedWordClosure ==
    Len(results) >= 1 =>
        \A k \in DOMAIN RESERVED_WORDS :
            upper_chars(identifier) = upper_chars(k) => results[1] = RESERVED_WORDS[k]

STSafe(ident) ==
    /\ \A i \in 1..Len(ident) : ident[i] \in WordChars
    /\ ident # <<>> => ident[1] \notin Digits

\* C12: every result of sanitize_identifier has only characters of
\* [A-Za-z0-9_] and does not start with a digit.
C12_ResultIsSTSafe ==
    \A i \in 1..Len(results) : STSafe(results[i])

C12_Witness ==
    /\ identifier = <<"1", "-", "T">>
    /\ results = <<<<"v", "a", "r", "_", "1", "_", "T">>>>

(***************************************************************************)
(* The ST lifter (checked under SpecLift).  What the source says: its      *)
(* lines without their comments, the lines of the VAR block, the lines of  *)
(* the body.                                                               *)
(***************************************************************************)
\* The text without its comments: "//" runs to the end of the line, "(*"
\* to the next "*)" on whatever line; the line ends are kept.
RECURSIVE Uncomment(_, _)
Uncomment(text, mode) ==
    IF text = <<>> THEN <<>>
    ELSE LET t == Head(text)
             rest == Tail(text)
         IN  CASE mode = "bracket" ->
                     IF t = "*)" THEN Uncomment(rest, "code")
                     ELSE (IF t = "\n" THEN <<t>> ELSE <<>>) \o Uncomment(rest, "bracket")
               [] mode = "line" ->
                     IF t = "\n" THEN <<t>> \o Uncomment(rest, "code")
                     ELSE Uncomment(rest, "line")
               [] OTHER ->
                     IF t = "(*" THEN Uncomment(rest, "bracket")
                     ELSE IF t = "//" THEN Uncomment(rest, "line")
                     ELSE <<t>> \o Uncomment(rest, "code")

SourceLines ==
    LET lines == SplitTok(Uncomment(JoinLines(st_source), "code"), "\n")
    IN  [k \in 1..Len(lines) |-> StripLine(lines[k])]

\* The non-empty lines inside (part = "block") or outside (part = "body")
\* VAR ... END_VAR.
RECURSIVE PartOf(_, _, _)
PartOf(lines, part, inside) ==
    IF lines = <<>> THEN <<>>
    ELSE IF Head(lines) = <<"VAR">> THEN PartOf(Tail(lines), part, TRUE)
    ELSE IF Head(lines) = <<"END_VAR">> THEN PartOf(Tail(lines), part, FALSE)
    ELSE (IF Head(lines) # <<>> /\ (inside <=> part = "block") THEN <<Head(lines)>> ELSE <<>>)
         \o PartOf(Tail(lines), part, inside)

SourceBlock == PartOf(SourceLines, "block", FALSE)

SourceBody == PartOf(SourceLines, "body", FALSE)

\* The declaration a line of the block makes, <<>> when it makes none.
Declaration(line) == IF array_match(line) # <<>> THEN array_match(line) ELSE var_match(line)

DeclaredNames ==
    {Declaration(SourceBlock[k])[1].name :
        k \in {i \in 1..Len(SourceBlock) : Declaration(SourceBlock[i]) # <<>>}}

ControllerOf(root) == findchildren(root, "Controller")[1]

ControllerTagsOf(root) == findchildren(findchildren(ControllerOf(root), "Tags")[1], "Tag")

MainProgramOf(root) ==
    SelectSeq(findall(ControllerOf(root), "Program"),
              LAMBDA e : Get(e, "Name", "") = "MainProgram")[1]

ProgramTagsOf(root) == findchildren(findchildren(MainProgramOf(root), "Tags")[1], "Tag")

Named(tags, n) == SelectSeq(tags, LAMBDA e : Get(e, "Name", "") = n)

\* C13: every variable declared in the VAR block is emitted as exactly one
\* Tag: under the Controller's Tags when its name begins with HMI_ or Global_
\* or is all upper case, otherwise under the Tags of MainProgram.
C13_EveryVariableOneScopedTag ==
    lift_pc = "done" =>
        \A n \in DeclaredNames :
            /\ Len(Named(ControllerTagsOf(l5x_root), n)) + Len(Named(ProgramTagsOf(l5x_root), n)) = 1
            /\ Len(Named(ControllerTagsOf(l5x_root), n)) = 1
                   <=> (startswith(n, "HMI_") \/ startswith(n, "Global_") \/ isupper(n))

\* C14: for every declaration x : ARRAY [a..b] OF T := init; of the VAR
\* block the lifter records the dimensions a..b, the base type T and the
\* initial value init for x, and the Tag emitted for x has Dimension a..b.
C14_ArrayDeclarationRecorded ==
    lift_pc = "done" =>
        \A k \in 1..Len(SourceBlock) :
            array_match(SourceBlock[k]) # <<>> =>
                LET d == array_match(SourceBlock[k])[1]
                    tags == Named(ControllerTagsOf(l5x_root) \o ProgramTagsOf(l5x_root), d.name)
                IN  /\ d.name \in DOMAIN variables.info
                    /\ variables.info[d.name] = d
                    /\ Len(tags) = 1
                    /\ Get(tags[1], "Dimension", "") = d.array_range

\* C15: no text inside a comment becomes a variable declaration or a
\* statement of the program body, also when the comment spans lines.
C15_CommentsAreStripped ==
    lift_pc = "done" =>
        /\ \A k \in 1..Len(variables.ids) : variables.ids[k] \in DeclaredNames
        /\ \A k \in 1..Len(program_logic) :
               \E i \in 1..Len(SourceBody) : program_logic[k] = SourceBody[i]

RoutineText(root) == findall(findall(MainProgramOf(root), "Routine")[1], "Text")[1].text

\* C16: the content of MainRoutine is the source body: every non-comment
\* line outside the VAR block, once, in source order, its text unchanged.
C16_RoutineContentIsSourceBody ==
    (lift_pc = "done" /\ SourceBody # <<>>) =>
        RoutineText(l5x_root)
            = JoinStr([k \in 1..Len(SourceBody) |-> Concat(SourceBody[k])], "\n")

BaseTypes20 ==
    <<"BOOL", "SINT", "INT", "DINT", "LINT", "USINT", "UINT", "UDINT", "ULINT", "REAL",
      "LREAL", "TIME", "DATE", "TOD", "DT", "STRING", "BYTE", "WORD", "DWORD", "LWORD">>

DataTypeNames(root) ==
    LET dts == findchildren(findchildren(ControllerOf(root), "DataTypes")[1], "DataType")
    IN  [k \in 1..Len(dts) |-> Get(dts[k], "Name", "")]

\* C17: the DataTypes section holds the 20 base types first, then one entry
\* per user type, a user type being a declared type that is no base type.
C17_TwentyBaseTypesThenUserTypes ==
    lift_pc = "done" =>
        LET names == DataTypeNames(l5x_root)
            declared == {variables.info[n].type : n \in DOMAIN variables.info}
            users == declared \ {BaseTypes20[k] : k \in 1..Len(BaseTypes20)}
        IN  /\ Len(names) = Len(BaseTypes20) + Cardinality(users)
            /\ SubSeq(names, 1, Len(BaseTypes20)) = BaseTypes20
            /\ {names[k] : k \in (Len(BaseTypes20) + 1)..Len(names)} = users

(***************************************************************************)
(* Tag extraction (checked under SpecExtract).                             *)
(***************************************************************************)
\* The decimal integer a value of the shape '$hh$hh...' encodes.
Decoded(value) ==
    CASE value = "'$00$00$00$1E'" -> "30"
      [] OTHER -> value

\* The controller tags of the document the accessor does not raise on: the
\* k-th of them is the source of the k-th tag of the IR.
ExtractedFrom ==
    SelectSeq(AccessorTags(AccessorController(document)),
              LAMBDA tag_data : ~AccessorRaises(tag_data))

NamesOf(items) == [k \in 1..Len(items) |-> items[k].name]
NameAttributes(elems) == [k \in 1..Len(elems) |-> Get(elems[k], "Name", "Unknown")]

\* C18: every tag of the IR has the sanitized identifier of its source name
\* as name, and the source data type without array brackets and
\* angle-bracket decorations as data type.
C18_TagNameSanitizedTypeStripped ==
    ir_pc = "serialize" =>
        \A k \in 1..Len(original.controller.tags) :
            k <= Len(ExtractedFrom) =>
                /\ original.controller.tags[k].name
                       = Concat(sanitize_identifier(Chars(Get(ExtractedFrom[k], "Name", ""))))
                /\ original.controller.tags[k].data_type
                       = get_base_data_type(Get(ExtractedFrom[k], "DataType", ""))

\* C19: a value of the hex-like shape '$hh$hh...' is stored as the decimal
\* integer it encodes, every other value is stored unchanged.
C19_HexValueDecoded ==
    ir_pc = "serialize" =>
        \A k \in 1..Len(original.controller.tags) :
            k <= Len(ExtractedFrom) =>
                original.controller.tags[k].value
                    = Decoded(Get(ExtractedFrom[k], "Value", ""))

\* C20: a tag whose extraction raises is skipped and nothing else is lost:
\* the IR holds every other controller tag in source order, and the user
\* types, function blocks and programs of the document.
C20_FailingTagIsSkipped ==
    ir_pc = "serialize" =>
        /\ NamesOf(original.controller.tags) = NameAttributes(ExtractedFrom)
        /\ NamesOf(original.controller.data_types)
               = NameAttributes(findall(AccessorController(document), "DataType"))
        /\ NamesOf(original.controller.function_blocks)
               = NameAttributes(findall(AccessorController(document), "AddOnInstruction"))
        /\ NamesOf(original.programs) = NameAttributes(AccessorPrograms(document))
        /\ \A k \in 1..Len(original.programs) :
               Len(original.programs[k].routines)
                   = Len(findall(AccessorPrograms(document)[k], "Routine"))

\* An extraction of three controller tags, the second of which raises, from
\* a document with a user type, a function block and a program.
C20_Witness ==
    /\ ir_pc = "serialize"
    /\ Len(AccessorTags(AccessorController(document))) = 3
    /\ AccessorRaises(AccessorTags(AccessorController(document))[2])
    /\ Len(original.controller.tags) = 2
    /\ original.controller.data_types # <<>>
    /\ original.controller.function_blocks # <<>>
    /\ original.programs # <<>>

\* The controller tags of the document whose extraction raised.
FailedTags ==
    SelectSeq(AccessorTags(AccessorController(document)),
              LAMBDA tag_data : AccessorRaises(tag_data))

\* C21: after l5x_to_ir the warnings and errors of the conversion metadata
\* hold one diagnostic for each entity that failed to extract and was
\* skipped.
C21_DiagnosticsAccumulate ==
    ir_pc = "serialize" =>
        Len(conversion_metadata.warnings) + Len(conversion_metadata.errors)
            = Len(FailedTags)

(***************************************************************************)
(* The validator (checked under SpecValidate).                             *)
(***************************************************************************)
InSeq(items, x) == \E k \in 1..Len(items) : items[k] = x

ControllerUnnamed == IsNone(validated_project.controller) \/ validated_project.controller.name = ""
NoControllerTags == IsNone(validated_project.controller) \/ validated_project.controller.tags = <<>>
ProgramsWithoutRoutines ==
    SelectSeq(validated_project.programs, LAMBDA prog : prog.routines = <<>>)

\* C22: validate_ir returns one diagnostic for each violated rule: (a)
\* controller missing or unnamed, (b) no controller tags, (c) no programs,
\* (d) one per program without routines; the list is empty exactly when no
\* rule is violated, and a missing controller gives (a), not an exception.
C22_OneDiagnosticPerViolatedRule ==
    val_pc = "done" =>
        /\ validation.raised = ""
        /\ InSeq(validation.errors, "Controller missing or unnamed.") <=> ControllerUnnamed
        /\ InSeq(validation.errors, "No controller tags found.") <=> NoControllerTags
        /\ InSeq(validation.errors, "No programs found.") <=> validated_project.programs = <<>>
        /\ \A n \in {"Main", "Aux"} :
               Count(validation.errors, "Program '" \o n \o "' has no routines.")
                   = Len(SelectSeq(ProgramsWithoutRoutines, LAMBDA prog : prog.name = n))
        /\ Len(validation.errors)
               = (IF ControllerUnnamed THEN 1 ELSE 0) + (IF NoControllerTags THEN 1 ELSE 0)
                 + (IF validated_project.programs = <<>> THEN 1 ELSE 0) + Len(ProgramsWithoutRoutines)

(***************************************************************************)
(* The command st2l5x (checked under SpecSt2l5x).                          *)
(***************************************************************************)
\* The ST text the run converts, and the L5X texts the conversion can give.
ConvertedText == IF argv.entry = "main" /\ argv.use_ir THEN Recombined(input_file) ELSE input_file

L5XTexts ==
    {convert_st_to_l5x_string(ConvertedText, type_order) :
        type_order \in Orders(parse_variable_declarations(ConvertedText).user_types)}

\* C23: with --use-ir the output is written only after the validator found
\* no error in the extracted IR; if it reports errors, each is printed, the
\* exit status is not 0 and the output file is not written.
C23_OutputOnlyAfterValidation ==
    (cli_pc = "exited" /\ argv.use_ir) =>
        /\ output_file # Absent =>
               /\ output_file.root \in L5XTexts
               /\ \A rank \in Ranks :
                      validate_ir(l5x_to_ir(output_file.root, rank))
                          = [raised |-> "", errors |-> <<>>]
        /\ \A l5x_text \in L5XTexts, rank \in Ranks :
               LET reported == validate_ir(l5x_to_ir(l5x_text, rank)).errors
               IN  reported # <<>> =>
                       /\ output_file = Absent
                       /\ exit_code # 0
                       /\ \A k \in 1..Len(reported) : InSeq(echoed, "  - " \o reported[k])

\* A run with --use-ir on a file that declares no controller tag: the
\* validator reported it, nothing was written.
C23_Witness ==
    /\ cli_pc = "exited" /\ argv.use_ir
    /\ InSeq(echoed, "  - No controller tags found.")
    /\ output_file = Absent /\ exit_code = 1

(***************************************************************************)
(* The command l5x2st --use-ir (checked under SpecL5x2st).                 *)
(***************************************************************************)
\* C24: with --use-ir the ST output is written only when the validation of
\* the extracted IR reports no errors; a validation failure gives a
\* non-zero exit and no output.
C24_STOutputOnlyAfterValidation ==
    (cli_pc = "exited" /\ argv.use_ir /\ ~argv.directory /\ input_file # Absent) =>
        \A rank \in Ranks :
            LET reported == validate_ir(l5x_to_ir(input_file, rank))
            IN  /\ output_file # Absent => reported = [raised |-> "", errors |-> <<>>]
                /\ reported.errors # <<>> => (exit_code # 0 /\ output_file = Absent)

(***************************************************************************)
(* The converter state (checked under SpecConverter).                      *)
(***************************************************************************)
\* Two names equal up to the case of their letters.
SameName(a, b) == upper_chars(a) = upper_chars(b)

VarNames == {state.var_names[i] : i \in 1..Len(state.var_names)}

\* C25: after any sequence of add_variable calls, var_names, the keys of
\* data_types and the keys of var_origin are the same set of lower-cased
\* names, one per name used by a call, and each name maps to the data type
\* and the origin of the first call that used it, compared without case.
C25_FirstAddVariableWins ==
    \E used \in {[k \in 1..Len(add_calls) |-> upper_chars(add_calls[k].var_name)]} :
    \E held \in {[i \in 1..Len(state.var_names) |-> upper_chars(state.var_names[i])]} :
        /\ DOMAIN state.data_types = VarNames
        /\ DOMAIN state.var_origin = VarNames
        /\ \A i, j \in 1..Len(held) : held[i] = held[j] => i = j
        /\ \A k \in 1..Len(used) : \E i \in 1..Len(held) : held[i] = used[k]
        /\ \A i \in 1..Len(held) :
               /\ \A c \in 1..Len(state.var_names[i]) :
                      \A u \in 1..Len(UpperCase) : state.var_names[i][c] # UpperCase[u]
               /\ \E k \in 1..Len(used) :
                      /\ used[k] = held[i]
                      /\ \A j \in 1..(k - 1) : used[j] # held[i]
                      /\ state.data_types[state.var_names[i]] = add_calls[k].data_type
                      /\ state.var_origin[state.var_names[i]] = add_calls[k].origin

\* Two calls used the same name in different case and with different types
\* and origins, and a file was parsed after them.
C25_Witness ==
    /\ \E j, k \in 1..Len(add_calls) :
           /\ j < k
           /\ SameName(add_calls[j].var_name, add_calls[k].var_name)
           /\ add_calls[j].var_name # add_calls[k].var_name
           /\ add_calls[j].data_type # add_calls[k].data_type
    /\ parsed_files # <<>>

\* The ".L5X" files of a listing, whatever the case of their letters.
IsL5X(path) ==
    /\ Len(path) >= 4
    /\ upper_chars(SubSeq(path, Len(path) - 3, Len(path))) = <<".", "L", "5", "X">>

\* C26: a call of reset_for_new_controller increases current_controller by
\* exactly 1, empties appended_reserved_words and leaves every other field
\* of the state as it was; a directory conversion applies it once after
\* each of its L5X files, so that the k-th file is parsed with the
\* controller number at the start plus k - 1.
C26_ResetOncePerFile ==
    [][/\ (called'.n = called.n + 1 /\ called'.op = "reset_for_new_controller")
          => /\ state'.current_controller = state.current_controller + 1
             /\ state'.appended_reserved_words = <<>>
             /\ \A field \in DOMAIN state \ {"current_controller", "appended_reserved_words"} :
                    state'[field] = state[field]
       /\ (called'.n = called.n + 1 /\ called'.op = "parse_l5x_directory")
          => LET files == SelectSeq(called'.files, IsL5X)
             IN  /\ Len(parsed_files') = Len(parsed_files) + Len(files)
                 /\ \A k \in 1..Len(files) :
                        parsed_files'[Len(parsed_files) + k].controller
                            = state.current_controller + k - 1
                 /\ state'.current_controller = state.current_controller + Len(files)
                 /\ files # <<>> => state'.appended_reserved_words = <<>>]_vars

\* A reset was called on a state that holds variables and timers.
C26_Witness ==
    /\ called.op = "reset_for_new_controller"
    /\ state.var_names # <<>> /\ state.fbd_timers # <<>> /\ state.struct_names # {}
    /\ state.current_controller = 2

\* The auxiliary definitions the claim names, each as the piece emitted.
AuxiliaryStructTexts ==
    {AUXILIARY_STRUCTS[k].text \o "\n\n" :
        k \in {j \in 1..Len(AUXILIARY_STRUCTS) :
                  AUXILIARY_STRUCTS[j].name \in {"DOMINANT_SET", "MESSAGE"}}}

AuxiliaryFunctionTexts ==
    {AUXILIARY_FUNCTIONS[k].text \o "\n\n" :
        k \in {j \in 1..Len(AUXILIARY_FUNCTIONS) :
                  \E result \in {"BOOL", "SCALE", "ALARM", "MESSAGE"} :
                      AUXILIARY_FUNCTIONS[j].name
                          \in {f \o ": " \o result : f \in {"SETD", "SCL", "ALM", "OSRI", "MSG"}}}}

\* The last call was a directory conversion on a converter that had parsed
\* no file before, and the directory holds an L5X file.
FreshDirectory ==
    /\ called.op = "parse_l5x_directory"
    /\ parsed_files # <<>>
    /\ Len(parsed_files) = Len(SelectSeq(called.files, IsL5X))

\* C27: the first file a converter parses gets every auxiliary struct
\* (DOMINANT_SET, MESSAGE) and every auxiliary function (SETD, SCL, ALM,
\* OSRI, MSG) exactly once, no later file gets any, and the consolidated
\* output of a directory conversion holds each exactly once.
C27_AuxiliaryEmittedOnce ==
    /\ Cardinality(AuxiliaryStructTexts) = 2 /\ Cardinality(AuxiliaryFunctionTexts) = 5
    /\ \A k \in 1..Len(parsed_files) :
           /\ \A t \in AuxiliaryStructTexts :
                  Count(parsed_files[k].st_file.struct_decs, t) = (IF k = 1 THEN 1 ELSE 0)
           /\ \A t \in AuxiliaryFunctionTexts :
                  Count(parsed_files[k].st_file.func_decs, t) = (IF k = 1 THEN 1 ELSE 0)
    /\ FreshDirectory
       => /\ \A t \in AuxiliaryStructTexts : Count(consolidated.struct_decs, t) = 1
          /\ \A t \in AuxiliaryFunctionTexts : Count(consolidated.func_decs, t) = 1

\* A directory of two L5X files was converted by a new converter.
C27_Witness ==
    /\ FreshDirectory
    /\ Len(parsed_files) = 2
    /\ called.n = 1

(***************************************************************************)
(* Rungs of groups (checked under SpecGroups).                             *)
(***************************************************************************)
\* The OR, over the disjuncts, of the AND of each disjunct's conditions.
OrOfAnds(first) == JoinStr([k \in 1..Len(first) |-> AndOfAll(first[k])], " OR ")

\* Every action of every group, in rung order, one per line.
ActionsOf(later) ==
    Concat(Flatten([k \in 1..Len(later) |->
                      [j \in 1..Len(later[k]) |->
                          "\t" \o REGULAR_FUNCTIONS_IMPL(ParseCall(later[k][j]).fname,
                                                         ParseCall(later[k][j]).params, TRUE)
                          \o "\n"]]))

\* C28: for a rung that begins with a bracketed condition group followed by
\* k >= 1 further groups, the guard is the OR of the ANDs of the first
\* group's disjuncts and every action of every later group is emitted, in
\* rung order, between ") THEN" and the closing "END_IF;".
C28_EveryLaterGroupIsEmitted ==
    ld_pc = "done" =>
        \A first \in FirstGroups, later \in LaterGroups :
            rung = GroupRung(first, later) =>
                Concat(st) = "IF (" \o OrOfAnds(first) \o ") THEN\n"
                             \o ActionsOf(later) \o "END_IF;\n"

(***************************************************************************)
(* The execution order of one sheet (checked under SpecFBD).               *)
(***************************************************************************)
\* The wires of the sheet that go from an instance to an instance.
InstanceWires ==
    SelectSeq(wires, LAMBDA w : w.from_id \in DOMAIN function_blocks.info
                                /\ w.to_id \in DOMAIN function_blocks.info)

\* C29: for a single sheet with any set of wires, cycles and a wire from an
\* instance to itself included, the ordering step ends (it yields an order
\* for every sheet that can be parsed first) and the execution order holds
\* every instance of the sheet exactly once; with no wires between instances
\* it is the instances' insertion order.
C29_SingleSheetOrderIsAPermutation ==
    /\ (fbd_pc = "parsing" /\ Len(sheets) = 0) =>
           \A S \in WireChoices, rank \in Ranks :
               \E r \in {parse_sheet_result(NewTranslator, Sheet(1, S), 1, rank)} :
                   Len(r.execution_order) = Len(r.function_blocks.ids)
    /\ Len(sheets) = 1 =>
           /\ Len(function_blocks.ids) = Len(sheets[1].fbs)
           /\ Len(execution_order) = Len(function_blocks.ids)
           /\ \A k \in 1..Len(function_blocks.ids) :
                  Count(execution_order, function_blocks.ids[k]) = 1
           /\ (InstanceWires = <<>> => execution_order = function_blocks.ids)

\* One sheet whose two instances feed each other has been ordered.
C29_Witness ==
    /\ Len(sheets) = 1
    /\ \E i, j \in 1..Len(wires) :
           /\ wires[i].from_id = "1" /\ wires[i].to_id = "2"
           /\ wires[j].from_id = "2" /\ wires[j].to_id = "1"
    /\ Len(execution_order) = 2

\* One sheet with a wire from an instance to itself has been ordered.
C29_SelfWireOrdered ==
    /\ Len(sheets) = 1
    /\ \E i \in 1..Len(wires) : wires[i].from_id = wires[i].to_id
    /\ Len(execution_order) = 2

(***************************************************************************)
(* Nesting of the emitted text (checked under SpecLD).                     *)
(***************************************************************************)
\* The number of IF statements open after pieces k.. of s, entered with
\* depth open; -1 when an "END_IF;" or an "ELSE" comes with none open.
RECURSIVE Nesting(_, _, _)
Nesting(s, k, depth) ==
    IF depth = -1 \/ k > Len(s) THEN depth
    ELSE Nesting(s, k + 1,
                 IF s[k] = "IF (" THEN depth + 1
                 ELSE IF s[k] = "END_IF;\n" THEN (IF depth > 0 THEN depth - 1 ELSE -1)
                 ELSE IF s[k] = "ELSE\n" THEN (IF depth > 0 THEN depth ELSE -1)
                 ELSE depth)

\* C30: for every rung text the emitted ST is well nested: as many "IF ("
\* as "END_IF;" at the end of the translation, every "ELSE" between an
\* opening and its closing, no closing before its opening.
C30_EmittedTextIsWellNested ==
    ld_pc = "done" =>
        /\ Count(st, "IF (") = Count(st, "END_IF;\n")
        /\ Nesting(st, 1, 0) = 0

\* A rung whose guard encloses a guarded OTE with its ELSE arm has been
\* translated.
C30_Witness ==
    /\ ld_pc = "done"
    /\ Count(st, "IF (") = 2
    /\ Count(st, "ELSE\n") = 1

=============================================================================
